---------------------------- MODULE Spec2Model ----------------------------
(***************************************************************************)
(* DataVision: the cleaning pipeline (src/src/analisis/limpieza_datos.py), *)
(* outlier detection (src/src/analisis/estadisticas.py) and the            *)
(* correlation helpers (src/src/analisis/correlaciones.py).                *)
(*                                                                         *)
(* Numbers are exact rationals <<n, d>> with d > 0 in lowest terms; the    *)
(* missing value (NaN / None of a float64 column) is <<0, 0>>.  Floating   *)
(* point rounding is not modelled.  pandas is taken at the version the     *)
(* program asks for (main.py:183, pandas 2.1, Copy-on-Write off), where a  *)
(* chained df[col].fillna(..., inplace=True) writes through to df.         *)
(***************************************************************************)
EXTENDS Integers, Sequences, FiniteSets, TLC

(***************************************************************************)
(* Bounds of the model.                                                    *)
(***************************************************************************)
MaxFilas == 2

MaxFilasNulos == 3

MaxValores == 5

MaxColumnas == 3

MaxLinea == 3

MaxLlamadas == 2

\* cells of a column given to detectar_tipos_columnas
MaxCeldas == 4

\* cells of a text column given to optimizar_tipos_datos
MaxCeldasTexto == 5

(***************************************************************************)
(* Rational arithmetic with NaN.                                           *)
(***************************************************************************)
NaN == <<0, 0>>

IsNaN(x) == x[2] = 0

Abs(n) == IF n < 0 THEN -n ELSE n

RECURSIVE GCD(_, _)
GCD(a, b) == IF b = 0 THEN a ELSE GCD(b, a % b)

Rat(n, d) ==
  IF d = 0 THEN NaN
  ELSE LET s == IF d < 0 THEN -1 ELSE 1
           g == GCD(Abs(n), Abs(d))
       IN  <<(s * n) \div g, (s * d) \div g>>

R(n) == <<n, 1>>

RAdd(x, y) == IF IsNaN(x) \/ IsNaN(y) THEN NaN
              ELSE Rat(x[1] * y[2] + y[1] * x[2], x[2] * y[2])

RNeg(x) == IF IsNaN(x) THEN NaN ELSE <<-x[1], x[2]>>

RSub(x, y) == RAdd(x, RNeg(y))

RMul(x, y) == IF IsNaN(x) \/ IsNaN(y) THEN NaN
              ELSE Rat(x[1] * y[1], x[2] * y[2])

\* x / y; 0/0 and x/0 are not finite numbers and are carried as NaN
RDiv(x, y) == IF IsNaN(x) \/ IsNaN(y) THEN NaN
              ELSE Rat(x[1] * y[2], x[2] * y[1])

RAbs(x) == IF IsNaN(x) THEN NaN ELSE <<Abs(x[1]), x[2]>>

\* every comparison with NaN is false
RLt(x, y) == ~IsNaN(x) /\ ~IsNaN(y) /\ x[1] * y[2] < y[1] * x[2]
RLe(x, y) == ~IsNaN(x) /\ ~IsNaN(y) /\ x[1] * y[2] <= y[1] * x[2]
RGt(x, y) == RLt(y, x)
RGe(x, y) == RLe(y, x)

(***************************************************************************)
(* Sequence helpers.                                                       *)
(***************************************************************************)
RECURSIVE SumSeq(_)
SumSeq(s) == IF s = <<>> THEN R(0) ELSE RAdd(Head(s), SumSeq(Tail(s)))

RECURSIVE Insertar(_, _)
Insertar(x, s) ==
  IF s = <<>> THEN <<x>>
  ELSE IF RLe(x, Head(s)) THEN <<x>> \o s
       ELSE <<Head(s)>> \o Insertar(x, Tail(s))

RECURSIVE Ordenar(_)
Ordenar(s) == IF s = <<>> THEN <<>> ELSE Insertar(Head(s), Ordenar(Tail(s)))

Contiene(s, x) == \E i \in 1..Len(s) : s[i] = x

Posicion(s, x) == CHOOSE i \in 1..Len(s) : s[i] = x

\* the positions k of a boolean mask with mask[k] true, in order
RECURSIVE PosicionesDesde(_, _)
PosicionesDesde(k, mask) ==
  IF k > Len(mask) THEN <<>>
  ELSE (IF mask[k] THEN <<k>> ELSE <<>>) \o PosicionesDesde(k + 1, mask)

Posiciones(mask) == PosicionesDesde(1, mask)

Elegir(s, pos) == [k \in 1..Len(pos) |-> s[pos[k]]]

\* s[mask]: the elements of s where the mask is true, in order
Filtrar(s, mask) == Elegir(s, Posiciones(mask))

(***************************************************************************)
(* pandas DataFrame values.  A table is                                    *)
(*   [columns, dtypes, index, data]                                        *)
(* columns: the column names in order; dtypes: "float64" or "object" per   *)
(* column; index: the row labels; data: the rows, each a sequence of cells *)
(* (a rational or NaN in a float64 column; a string or None in an object   *)
(* column).  Lista stands for a cell holding a Python list, which pandas   *)
(* cannot hash.                                                            *)
(***************************************************************************)
None == "None"

Lista == "[1, 2]"

\* the text values in their sort order
TextoOrdenado == <<"x">>

DataFrame(columns, dtypes, index, data) ==
  [columns |-> columns, dtypes |-> dtypes, index |-> index, data |-> data]

NFilas(t) == Len(t.index)

NColumnas(t) == Len(t.columns)

EnColumnas(t, col) == Contiene(t.columns, col)

DType(t, col) == t.dtypes[Posicion(t.columns, col)]

\* pd.api.types.is_numeric_dtype(df[col])
EsNumerica(t, col) == DType(t, col) = "float64"

EsNulo(dt, c) == IF dt = "object" THEN c = None ELSE IsNaN(c)

\* df[col]: the cells of a column, in row order
Serie(t, col) ==
  LET p == Posicion(t.columns, col)
  IN  [i \in 1..NFilas(t) |-> t.data[i][p]]

\* df[col].isnull()
MascaraNulos(t, col) ==
  LET dt == DType(t, col)
      s == Serie(t, col)
  IN  [i \in 1..Len(s) |-> EsNulo(dt, s[i])]

\* df[col].dropna(), values only
SinNulos(t, col) ==
  LET m == MascaraNulos(t, col)
  IN  Filtrar(Serie(t, col), [i \in 1..Len(m) |-> ~m[i]])

\* df[mask]: boolean row selection; a new table that keeps the row labels
FilasDonde(t, mask) ==
  LET pos == Posiciones(mask)
  IN  DataFrame(t.columns, t.dtypes, Elegir(t.index, pos), Elegir(t.data, pos))

\* df.drop(columns=cols)
DropColumnas(t, cols) ==
  LET pos == Posiciones([k \in 1..NColumnas(t) |-> ~Contiene(cols, t.columns[k])])
  IN  DataFrame(Elegir(t.columns, pos), Elegir(t.dtypes, pos), t.index,
                [i \in 1..NFilas(t) |-> Elegir(t.data[i], pos)])

\* df[col] = values (positional), keeping the other columns
ConColumna(t, col, vals) ==
  LET p == Posicion(t.columns, col)
  IN  [t EXCEPT !.data = [i \in 1..NFilas(t) |->
                            [t.data[i] EXCEPT ![p] = vals[i]]]]

\* df.select_dtypes(include=[np.number]).columns.tolist()
ColumnasNumericas(t) ==
  Elegir(t.columns, Posiciones([k \in 1..NColumnas(t) |-> t.dtypes[k] = "float64"]))

\* a cell pandas cannot hash is somewhere in the rows
TieneNoHashable(t) ==
  \E i \in 1..NFilas(t) : \E k \in 1..NColumnas(t) :
     t.dtypes[k] = "object" /\ t.data[i][k] = Lista

ColumnaNoHashable(t, col) ==
  DType(t, col) = "object" /\ Contiene(Serie(t, col), Lista)

(***************************************************************************)
(* Series statistics (pandas defaults: missing values are skipped).        *)
(***************************************************************************)
\* Series.mean() of the non-missing values; NaN when there is none
Media(vals) == IF vals = <<>> THEN NaN ELSE RDiv(SumSeq(vals), R(Len(vals)))

\* Series.quantile(num/4), linear interpolation between order statistics
Cuantil(vals, num) ==
  IF vals = <<>> THEN NaN
  ELSE LET o == Ordenar(vals)
           n == Len(o)
           lo == ((n - 1) * num) \div 4
           fr == ((n - 1) * num) % 4
       IN  IF fr = 0 THEN o[lo + 1]
           ELSE RAdd(o[lo + 1], RMul(Rat(fr, 4), RSub(o[lo + 2], o[lo + 1])))

Mediana(vals) == Cuantil(vals, 2)

\* population variance (ddof = 0), as scipy.stats.zscore and StandardScaler use
Varianza(vals) ==
  LET m == Media(vals)
  IN  Media([i \in 1..Len(vals) |-> RMul(RSub(vals[i], m), RSub(vals[i], m))])

Veces(vals, x) == Cardinality({i \in 1..Len(vals) : vals[i] = x})

MenorQue(dt, x, y) ==
  IF dt = "object"
  THEN Posicion(TextoOrdenado, x) < Posicion(TextoOrdenado, y)
  ELSE RLt(x, y)

\* Series.mode().iloc[0]: the smallest of the most frequent non-missing values
Moda(dt, vals) ==
  CHOOSE x \in {vals[i] : i \in 1..Len(vals)} :
     /\ \A i \in 1..Len(vals) : Veces(vals, vals[i]) <= Veces(vals, x)
     /\ \A i \in 1..Len(vals) :
           Veces(vals, vals[i]) = Veces(vals, x) => ~MenorQue(dt, vals[i], x)

(***************************************************************************)
(* Python objects.  A heap is a sequence of tables and a reference is a    *)
(* position in it: df.copy() and every pandas operation that returns a     *)
(* table allocate a new object, an assignment into df[col] or an           *)
(* inplace=True call changes the object the reference names.               *)
(***************************************************************************)
SinExc == [tipo |-> "", mensaje |-> ""]

Exc(tipo, mensaje) == [tipo |-> tipo, mensaje |-> mensaje]

Falla(e) == e.tipo # ""

\* the one element of a singleton set
Unico(S) == CHOOSE x \in S : TRUE

\* a new object holding table t
Nuevo(h, t) == [heap |-> Append(h, t), ref |-> Len(h) + 1]

CopiarAlias(h, r) == [heap |-> h, ref |-> r]

\* df.copy()
Copiar(h, r) == Nuevo(h, h[r])

\* the columns argument None
Todas == <<"<None>">>

\* the keep argument False
Falso == "<False>"

(***************************************************************************)
(* limpiar_valores_nulos                                                   *)
(***************************************************************************)
FillNATodo(t, col, valor) ==
  ConColumna(t, col, [i \in 1..NFilas(t) |-> valor])

\* Series.fillna(valor): the missing cells of the column become valor
FillNA(t, col, valor) ==
  LET m == MascaraNulos(t, col)
      s == Serie(t, col)
  IN  ConColumna(t, col, [i \in 1..Len(s) |-> IF m[i] THEN valor ELSE s[i]])

\* Series.fillna(method='ffill'): a missing cell takes the last value before it
RECURSIVE FFillDesde(_, _, _, _)
FFillDesde(dt, s, k, ultimo) ==
  IF k > Len(s) THEN <<>>
  ELSE LET v == IF EsNulo(dt, s[k]) THEN ultimo ELSE s[k]
       IN  <<v>> \o FFillDesde(dt, s, k + 1, v)

Invertir(s) == [i \in 1..Len(s) |-> s[Len(s) + 1 - i]]

NuloDe(dt) == IF dt = "object" THEN None ELSE NaN

FFill(t, col) ==
  LET dt == DType(t, col)
  IN  ConColumna(t, col, FFillDesde(dt, Serie(t, col), 1, NuloDe(dt)))

\* Series.fillna(method='bfill'): a missing cell takes the next value after it
BFill(t, col) ==
  LET dt == DType(t, col)
  IN  ConColumna(t, col,
        Invertir(FFillDesde(dt, Invertir(Serie(t, col)), 1, NuloDe(dt))))

DropNACualquiera(t, col) ==
  FilasDonde(t, [i \in 1..NFilas(t) |->
     \A k \in 1..NColumnas(t) : ~MascaraNulos(t, t.columns[k])[i]])

\* df.dropna(subset=[col])
DropNA(t, col) ==
  LET m == MascaraNulos(t, col)
  IN  FilasDonde(t, [i \in 1..Len(m) |-> ~m[i]])

\* one turn of the loop over columnas (lines 79-101); st = [heap, ref, exc]
LimpiarColumna(st, df, estrategia, col) ==
  LET h == st.heap
      entrada == h[df]
      limpio == h[st.ref]
  IN  IF ~EnColumnas(entrada, col) THEN st
      ELSE IF estrategia = "eliminar"
        THEN LET n == Nuevo(h, DropNA(limpio, col))
             IN  [st EXCEPT !.heap = n.heap, !.ref = n.ref]
      ELSE IF estrategia = "media" /\ EsNumerica(entrada, col)
        THEN [st EXCEPT !.heap[st.ref] =
                FillNA(limpio, col, Media(SinNulos(entrada, col)))]
      ELSE IF estrategia = "mediana" /\ EsNumerica(entrada, col)
        THEN [st EXCEPT !.heap[st.ref] =
                FillNA(limpio, col, Mediana(SinNulos(entrada, col)))]
      ELSE IF estrategia = "moda"
        THEN IF ColumnaNoHashable(entrada, col)
             THEN [st EXCEPT !.exc = Exc("TypeError", "unhashable type: 'list'")]
             ELSE IF SinNulos(entrada, col) = <<>> THEN st
             ELSE [st EXCEPT !.heap[st.ref] =
                     FillNA(limpio, col,
                            Moda(DType(entrada, col), SinNulos(entrada, col)))]
      ELSE IF estrategia = "forward_fill"
        THEN [st EXCEPT !.heap[st.ref] = FFill(limpio, col)]
      ELSE IF estrategia = "backward_fill"
        THEN [st EXCEPT !.heap[st.ref] = BFill(limpio, col)]
      ELSE st

RECURSIVE LimpiarDesde(_, _, _, _, _)
LimpiarDesde(st, df, estrategia, columnas, k) ==
  IF k > Len(columnas) \/ Falla(st.exc) THEN st
  ELSE LimpiarDesde(LimpiarColumna(st, df, estrategia, columnas[k]),
                    df, estrategia, columnas, k + 1)

\* limpiar_valores_nulos(df, estrategia, columnas) on heap h: [heap, ref, exc]
\* with ref the returned table (0 when the call raises)
limpiar_valores_nulos(h, df, estrategia, columnas) ==
  LET c == Copiar(h, df)
      cols == IF columnas = Todas THEN h[df].columns ELSE columnas
      fin == LimpiarDesde([heap |-> c.heap, ref |-> c.ref, exc |-> SinExc],
                          df, estrategia, cols, 1)
  IN  IF Falla(fin.exc) THEN [fin EXCEPT !.ref = 0] ELSE fin

(***************************************************************************)
(* eliminar_duplicados                                                     *)
(***************************************************************************)
\* the cells of row i in the subset columns
Clave(t, cols, i) == [k \in 1..Len(cols) |-> t.data[i][Posicion(t.columns, cols[k])]]

\* DataFrame.empty: no row or no column
Vacio(t) == NFilas(t) = 0 \/ NColumnas(t) = 0

\* df.duplicated(subset=cols, keep=keep): missing values compare equal; an
\* empty table has no duplicate
Duplicated(t, cols, keep) ==
  [i \in 1..NFilas(t) |->
     /\ ~Vacio(t)
     /\ \E j \in 1..NFilas(t) :
           /\ Clave(t, cols, j) = Clave(t, cols, i)
           /\ IF keep = "first" THEN j < i
              ELSE IF keep = "last" THEN j > i
              ELSE j # i]

\* eliminar_duplicados(df, columnas, mantener) on heap h: [heap, ref, exc]
eliminar_duplicados(h, df, columnas, mantener) ==
  LET t == h[df]
      cols == IF columnas = Todas THEN t.columns ELSE columnas
  IN  \* drop_duplicates returns a copy of an empty table at once; duplicated
      \* gives an empty Series for it, which cannot index a table with rows
      IF Vacio(t) /\ mantener # Falso
      THEN Unico({[heap |-> n.heap, ref |-> n.ref, exc |-> SinExc] :
                    n \in {Nuevo(h, t)}})
      ELSE IF Vacio(t) /\ NFilas(t) > 0
      THEN [heap |-> h, ref |-> 0,
            exc |-> Exc("IndexingError", "Unalignable boolean Series provided as indexer")]
      ELSE IF \E k \in 1..Len(cols) : ~EnColumnas(t, cols[k])
      THEN [heap |-> h, ref |-> 0, exc |-> Exc("KeyError", "Index")]
      ELSE IF \E k \in 1..Len(cols) : ColumnaNoHashable(t, cols[k])
      THEN [heap |-> h, ref |-> 0,
            exc |-> Exc("TypeError", "unhashable type: 'list'")]
      ELSE IF mantener \notin {"first", "last", Falso}
      THEN [heap |-> h, ref |-> 0,
            exc |-> Exc("ValueError", "keep must be either first, last or False")]
      ELSE LET d == Duplicated(t, cols, mantener)
               n == Nuevo(h, FilasDonde(t, [i \in 1..Len(d) |-> ~d[i]]))
           IN  [heap |-> n.heap, ref |-> n.ref, exc |-> SinExc]

(***************************************************************************)
(* tratar_outliers                                                         *)
(***************************************************************************)
\* Q1 - 1.5 * IQR and Q3 + 1.5 * IQR of the values
LimiteInferior(vals) ==
  RSub(Cuantil(vals, 1), RMul(Rat(3, 2), RSub(Cuantil(vals, 3), Cuantil(vals, 1))))

LimiteSuperior(vals) ==
  RAdd(Cuantil(vals, 3), RMul(Rat(3, 2), RSub(Cuantil(vals, 3), Cuantil(vals, 1))))

\* Series.clip(lower, upper): a NaN bound clips nothing, a NaN cell stays NaN
Clip(x, lower, upper) ==
  IF RLt(x, lower) THEN lower ELSE IF RGt(x, upper) THEN upper ELSE x

\* np.abs(stats.zscore(serie)) <= 3, for the value at position i of vals:
\* z = (x - mean) / std with the population std; |z| <= 3 iff z^2 <= 9, and
\* z is NaN (never <= 3) when std = 0
ZScoreHasta3(vals, i) ==
  LET d == RSub(vals[i], Media(vals))
  IN  RLe(RDiv(RMul(d, d), Varianza(vals)), R(9))

\* tratar_outliers(df, columna, metodo) on heap h: [heap, ref, exc]
tratar_outliers(h, df, columna, metodo) ==
  LET c == Copiar(h, df)
      entrada == c.heap[df]
      tratado == c.heap[c.ref]
  IN  IF ~EnColumnas(entrada, columna)
      THEN [heap |-> c.heap, ref |-> 0, exc |-> Exc("KeyError", columna)]
      ELSE IF ~EsNumerica(entrada, columna)
      THEN [heap |-> c.heap, ref |-> 0,
            exc |-> Exc("ValueError", "La columna debe ser numerica")]
      ELSE
      LET serie == SinNulos(entrada, columna)
          li == LimiteInferior(serie)
          ls == LimiteSuperior(serie)
          v == Serie(tratado, columna)
      IN  IF metodo = "iqr_cap"
          THEN [heap |-> [c.heap EXCEPT ![c.ref] =
                            ConColumna(tratado, columna,
                               [i \in 1..Len(v) |-> Clip(v[i], li, ls)])],
                ref |-> c.ref, exc |-> SinExc]
          ELSE IF metodo = "iqr_remove"
          THEN LET n == Nuevo(c.heap, FilasDonde(tratado,
                          [i \in 1..Len(v) |-> RGe(v[i], li) /\ RLe(v[i], ls)]))
               IN  [heap |-> n.heap, ref |-> n.ref, exc |-> SinExc]
          ELSE IF metodo = "zscore_remove"
          THEN \* z_scores is a numpy array as long as serie, used as a
               \* positional boolean mask on df_tratado
               IF Len(serie) # NFilas(tratado)
               THEN [heap |-> c.heap, ref |-> 0,
                     exc |-> Exc("ValueError", "Item wrong length")]
               ELSE LET n == Nuevo(c.heap, FilasDonde(tratado,
                               [i \in 1..Len(serie) |-> ZScoreHasta3(serie, i)]))
                    IN  [heap |-> n.heap, ref |-> n.ref, exc |-> SinExc]
          ELSE [heap |-> c.heap, ref |-> c.ref, exc |-> SinExc]

(***************************************************************************)
(* normalizar_datos (sklearn scalers: missing values are disregarded in    *)
(* fit and kept in transform; a zero scale is replaced by 1).              *)
(***************************************************************************)
Minimo(vals) == IF vals = <<>> THEN NaN ELSE Ordenar(vals)[1]

Maximo(vals) == IF vals = <<>> THEN NaN ELSE Ordenar(vals)[Len(vals)]

Escala(x) == IF x = R(0) THEN R(1) ELSE x

\* MinMaxScaler: (x - min) / (max - min)
MinMax(vals, x) ==
  RDiv(RSub(x, Minimo(vals)), Escala(RSub(Maximo(vals), Minimo(vals))))

\* RobustScaler: (x - median) / (Q3 - Q1)
Robust(vals, x) ==
  RDiv(RSub(x, Mediana(vals)), Escala(RSub(Cuantil(vals, 3), Cuantil(vals, 1))))

\* StandardScaler: z = (x - mean) / sqrt(var).  The square root of a
\* rational is not a rational in general, so the cell carries z as the
\* rational sign(z) * z^2, which determines z.
Standard(vals, x) ==
  LET d == RSub(x, Media(vals))
      z2 == RDiv(RMul(d, d), Escala(Varianza(vals)))
  IN  IF RLt(d, R(0)) THEN RNeg(z2) ELSE z2

Escalar(metodo, vals, x) ==
  IF metodo = "minmax" THEN MinMax(vals, x)
  ELSE IF metodo = "zscore" THEN Standard(vals, x)
  ELSE Robust(vals, x)

\* df_normalizado[columnas] = scaler.fit_transform(df[columnas]), column k on
RECURSIVE EscalarDesde(_, _, _, _, _)
EscalarDesde(t, entrada, metodo, columnas, k) ==
  IF k > Len(columnas) THEN t
  ELSE LET vals == SinNulos(entrada, columnas[k])
           s == Serie(entrada, columnas[k])
       IN  EscalarDesde(
             ConColumna(t, columnas[k],
                        [i \in 1..Len(s) |-> Escalar(metodo, vals, s[i])]),
             entrada, metodo, columnas, k + 1)

\* sklearn's check_array message for an input without rows or without columns
MensajeEscalador(que, metodo) ==
  "Found array with 0 " \o que \o " while a minimum of 1 is required by "
     \o (IF metodo = "minmax" THEN "MinMaxScaler"
         ELSE IF metodo = "zscore" THEN "StandardScaler" ELSE "RobustScaler")

\* normalizar_datos(df, columnas, metodo) on heap h: [heap, ref, exc]
normalizar_datos(h, df, columnas, metodo) ==
  LET c == Copiar(h, df)
      entrada == c.heap[df]
      cols == IF columnas = Todas THEN ColumnasNumericas(entrada) ELSE columnas
  IN  IF metodo \notin {"minmax", "zscore", "robust"}
      THEN [heap |-> c.heap, ref |-> c.ref, exc |-> SinExc]
      ELSE IF \E k \in 1..Len(cols) : ~EnColumnas(entrada, cols[k])
      THEN [heap |-> c.heap, ref |-> 0, exc |-> Exc("KeyError", "not in index")]
      ELSE IF \E k \in 1..Len(cols) :
                 /\ ~EsNumerica(entrada, cols[k])
                 /\ \E i \in 1..NFilas(entrada) :
                       Serie(entrada, cols[k])[i] # None
      THEN [heap |-> c.heap, ref |-> 0,
            exc |-> Exc("ValueError", "could not convert string to float")]
      ELSE IF NFilas(entrada) = 0
      THEN [heap |-> c.heap, ref |-> 0,
            exc |-> Exc("ValueError", MensajeEscalador("sample(s)", metodo))]
      ELSE IF cols = <<>>
      THEN [heap |-> c.heap, ref |-> 0,
            exc |-> Exc("ValueError", MensajeEscalador("feature(s)", metodo))]
      ELSE [heap |-> [c.heap EXCEPT ![c.ref] =
                        EscalarDesde(c.heap[c.ref], entrada, metodo, cols, 1)],
            ref |-> c.ref, exc |-> SinExc]

(***************************************************************************)
(* detectar_problemas_datos                                                *)
(***************************************************************************)
Cuenta(mask) == Len(Posiciones(mask))

\* columns whose cells are all missing (all of them when there is no row)
ColumnasVacias(t) ==
  Elegir(t.columns, Posiciones([k \in 1..NColumnas(t) |->
     \A i \in 1..NFilas(t) : MascaraNulos(t, t.columns[k])[i]]))

\* the entry of problemas['valores_extremos'] of a numeric column
ValoresExtremos(t, col) ==
  LET serie == SinNulos(t, col)
      inf == Cuenta([i \in 1..Len(serie) |-> RLt(serie[i], LimiteInferior(serie))])
      sup == Cuenta([i \in 1..Len(serie) |-> RGt(serie[i], LimiteSuperior(serie))])
  IN  [outliers_inferiores |-> inf, outliers_superiores |-> sup,
       total_outliers |-> inf + sup]

SinProblemas ==
  [valores_nulos |-> <<>>, duplicados |-> 0, valores_extremos |-> <<>>,
   columnas_vacias |-> <<>>]

\* detectar_problemas_datos(df): [problemas, exc].  valores_nulos and
\* valores_extremos are listed per column, in column order, as [col, ...]
\* records; the rounded percentage of line 31 is left out.
detectar_problemas_datos(t) ==
  IF TieneNoHashable(t)
  THEN [problemas |-> SinProblemas,
        exc |-> Exc("TypeError", "unhashable type: 'list'")]
  ELSE
  LET conNulos == Posiciones([k \in 1..NColumnas(t) |->
                     Cuenta(MascaraNulos(t, t.columns[k])) > 0])
      num == ColumnasNumericas(t)
      conExtremos == Posiciones([k \in 1..Len(num) |->
                        ValoresExtremos(t, num[k]).total_outliers > 0])
  IN  [problemas |->
         [valores_nulos |->
            [k \in 1..Len(conNulos) |->
               [col |-> t.columns[conNulos[k]],
                cantidad |-> Cuenta(MascaraNulos(t, t.columns[conNulos[k]]))]],
          duplicados |-> Cuenta(Duplicated(t, t.columns, "first")),
          valores_extremos |->
            [k \in 1..Len(conExtremos) |->
               [col |-> num[conExtremos[k]],
                extremos |-> ValoresExtremos(t, num[conExtremos[k]])]],
          columnas_vacias |-> ColumnasVacias(t)],
       exc |-> SinExc]

(***************************************************************************)
(* pipeline_limpieza_completa                                              *)
(***************************************************************************)
\* config_default (lines 219-225)
ConfigDefault ==
  [eliminar_duplicados |-> TRUE, tratar_nulos |-> "media",
   tratar_outliers |-> FALSE, normalizar |-> FALSE,
   eliminar_columnas_vacias |-> TRUE]

\* an entry of reporte['acciones_realizadas']: the text of the f-string
\* with the values it formats
Accion(texto, n, estrategia) ==
  [texto |-> texto, n |-> n, estrategia |-> estrategia]

\* a step the pipeline ran: its name, whether the table it produced differs
\* from the table it was given, and the rows of both
Paso(nombre, antes, despues) ==
  [paso |-> nombre, cambio |-> antes # despues,
   filas_antes |-> NFilas(antes), filas_despues |-> NFilas(despues)]

\* lines 240-245; st = [heap, ref, acciones, pasos, exc]
PasoColumnasVacias(st, config, problemas) ==
  IF Falla(st.exc) THEN st
  ELSE IF config.eliminar_columnas_vacias /\ problemas.columnas_vacias # <<>>
  THEN LET antes == st.heap[st.ref]
           n == Nuevo(st.heap, DropColumnas(antes, problemas.columnas_vacias))
       IN  [st EXCEPT !.heap = n.heap, !.ref = n.ref,
              !.acciones = Append(@, Accion("Eliminadas columnas vacias",
                                     Len(problemas.columnas_vacias), "")),
              !.pasos = Append(@, Paso("columnas_vacias", antes, n.heap[n.ref]))]
  ELSE st

\* lines 247-252
PasoDuplicados(st, config, problemas) ==
  IF Falla(st.exc) THEN st
  ELSE IF config.eliminar_duplicados /\ problemas.duplicados > 0
  THEN Unico({
         IF Falla(r.exc) THEN [st EXCEPT !.exc = r.exc]
         ELSE [st EXCEPT !.heap = r.heap, !.ref = r.ref,
                 !.acciones = Append(@, Accion("Eliminadas filas duplicadas",
                                        problemas.duplicados, "")),
                 !.pasos = Append(@, Paso("duplicados", st.heap[st.ref],
                                          r.heap[r.ref]))] :
         r \in {eliminar_duplicados(st.heap, st.ref, Todas, "first")}})
  ELSE st

\* lines 254-259
PasoNulos(st, config) ==
  IF Falla(st.exc) THEN st
  ELSE IF config.tratar_nulos # "ignorar"
  THEN Unico({
         IF Falla(r.exc) THEN [st EXCEPT !.exc = r.exc]
         ELSE [st EXCEPT !.heap = r.heap, !.ref = r.ref,
                 !.acciones = Append(@, Accion("Valores nulos tratados con estrategia",
                                        0, config.tratar_nulos)),
                 !.pasos = Append(@, Paso("nulos", st.heap[st.ref], r.heap[r.ref]))] :
         r \in {limpiar_valores_nulos(st.heap, st.ref, config.tratar_nulos, Todas)}})
  ELSE st

\* lines 261-264
PasoNormalizar(st, config) ==
  IF Falla(st.exc) THEN st
  ELSE IF config.normalizar
  THEN Unico({
         IF Falla(r.exc) THEN [st EXCEPT !.exc = r.exc]
         ELSE [st EXCEPT !.heap = r.heap, !.ref = r.ref,
                 !.acciones = Append(@, Accion("Datos normalizados", 0, "")),
                 !.pasos = Append(@, Paso("normalizar", st.heap[st.ref],
                                          r.heap[r.ref]))] :
         r \in {normalizar_datos(st.heap, st.ref, Todas, "minmax")}})
  ELSE st

SinReporte ==
  [filas_originales |-> 0, columnas_originales |-> 0,
   acciones_realizadas |-> <<>>, filas_finales |-> 0, columnas_finales |-> 0,
   filas_eliminadas |-> 0, columnas_eliminadas |-> 0]

\* what the call returns after the last step left st (lines 266-278)
Resultado(h, df, st, problemas) ==
  IF Falla(st.exc)
  THEN [heap |-> st.heap, ref |-> 0, reporte |-> SinReporte,
        problemas |-> SinProblemas, pasos |-> st.pasos, exc |-> st.exc]
  ELSE [heap |-> st.heap, ref |-> st.ref,
        reporte |->
          [filas_originales |-> NFilas(h[df]),
           columnas_originales |-> NColumnas(h[df]),
           acciones_realizadas |-> st.acciones,
           filas_finales |-> NFilas(st.heap[st.ref]),
           columnas_finales |-> NColumnas(st.heap[st.ref]),
           filas_eliminadas |-> NFilas(st.heap[df]) - NFilas(st.heap[st.ref]),
           columnas_eliminadas |->
              NColumnas(st.heap[df]) - NColumnas(st.heap[st.ref])],
        problemas |-> problemas, pasos |-> st.pasos, exc |-> SinExc]

\* pipeline_limpieza_completa(df, configuracion) on heap h:
\* [heap, ref, reporte, problemas, pasos, exc]; ref is result['datos_limpios']
\* and is 0, with an empty report, when the call raises.  configuracion is
\* the caller's dictionary already merged into config_default (line 228).
\* The statements run in the order of the source: c the copy of line 230,
\* d the detection of line 238, then s1..s4 the state after each step.
pipeline_limpieza_completa(h, df, config) ==
  Unico({Unico({Resultado(h, df, s4, d.problemas) :
     s4 \in {PasoNormalizar(s3, config) :
     s3 \in {PasoNulos(s2, config) :
     s2 \in {PasoDuplicados(s1, config, d.problemas) :
     s1 \in {PasoColumnasVacias(
               [heap |-> c.heap, ref |-> c.ref, acciones |-> <<>>,
                pasos |-> <<>>, exc |-> d.exc], config, d.problemas)}}}}}) :
     c \in {Copiar(h, df)}, d \in {detectar_problemas_datos(h[df])}})

(***************************************************************************)
(* detectar_outliers (estadisticas.py)                                     *)
(***************************************************************************)
SinDeteccion ==
  [metodo |-> "", limite_inferior |-> NaN, limite_superior |-> NaN,
   umbral |-> 0, outliers |-> <<>>, cantidad_outliers |-> 0,
   porcentaje_outliers |-> NaN]

EsOutlierIQRInclusivo(x, li, ls) == RLe(x, li) \/ RGe(x, ls)

\* (serie < limite_inferior) | (serie > limite_superior), line 77
EsOutlierIQR(x, li, ls) == RLt(x, li) \/ RGt(x, ls)

\* np.abs(stats.zscore(serie)) > 3 for the value at position i (line 90-91):
\* |z| > 3 iff z^2 > 9; z is NaN, and never > 3, when the std is 0
ZScoreSobre3(vals, i) ==
  LET d == RSub(vals[i], Media(vals))
  IN  RGt(RDiv(RMul(d, d), Varianza(vals)), R(9))

\* (len(outliers) / len(serie)) * 100
Porcentaje(n, total) == RMul(Rat(n, total), R(100))

\* detectar_outliers(df, columna, metodo): [res, exc]
detectar_outliers(t, columna, metodo) ==
  IF ~EnColumnas(t, columna)
  THEN [res |-> SinDeteccion, exc |-> Exc("ValueError", "La columna no existe en el DataFrame")]
  ELSE IF ~EsNumerica(t, columna)
  THEN [res |-> SinDeteccion, exc |-> Exc("ValueError", "La columna debe ser numerica")]
  ELSE IF metodo \notin {"iqr", "zscore"}
  THEN [res |-> SinDeteccion, exc |-> Exc("ValueError", "El metodo debe ser 'iqr' o 'zscore'")]
  ELSE IF SinNulos(t, columna) = <<>>
  THEN [res |-> SinDeteccion, exc |-> Exc("ZeroDivisionError", "division by zero")]
  ELSE Unico({
    IF metodo = "iqr"
    THEN Unico({
           [res |-> [metodo |-> "IQR", limite_inferior |-> li,
                     limite_superior |-> ls, umbral |-> 0, outliers |-> outliers,
                     cantidad_outliers |-> Len(outliers),
                     porcentaje_outliers |-> Porcentaje(Len(outliers), Len(serie))],
            exc |-> SinExc] :
           outliers \in {Filtrar(serie, [i \in 1..Len(serie) |->
                                          EsOutlierIQR(serie[i], li, ls)])}}) 
    ELSE Unico({
           [res |-> [metodo |-> "Z-Score", limite_inferior |-> NaN,
                     limite_superior |-> NaN, umbral |-> 3, outliers |-> outliers,
                     cantidad_outliers |-> Len(outliers),
                     porcentaje_outliers |-> Porcentaje(Len(outliers), Len(serie))],
            exc |-> SinExc] :
           outliers \in {Filtrar(serie, [i \in 1..Len(serie) |->
                                          ZScoreSobre3(serie, i)])}}) :
    serie \in {SinNulos(t, columna)},
    li \in {LimiteInferior(SinNulos(t, columna))},
    ls \in {LimiteSuperior(SinNulos(t, columna))}})

(***************************************************************************)
(* correlaciones.py.  The caller's table enters as what pandas computes    *)
(* from it: the names of its numeric columns, whether it has rows, and     *)
(* the matrix df_numerico.corr(method) of those columns (entries are       *)
(* rationals, or NaN for a pair without a defined correlation).            *)
(***************************************************************************)
MetodosCorr == {"pearson", "spearman", "kendall"}

\* matriz_correlacion(df, metodo): [columns, m, exc]
matriz_correlacion(t, metodo) ==
  IF t.columns = <<>> \/ ~t.hay_filas
  THEN [columns |-> <<>>, m |-> <<>>,
        exc |-> Exc("ValueError", "No se encontraron columnas numericas para calcular correlaciones")]
  ELSE IF metodo \notin MetodosCorr
  THEN [columns |-> <<>>, m |-> <<>>,
        exc |-> Exc("ValueError", "method must be either 'pearson', 'spearman', 'kendall', or a callable")]
  ELSE [columns |-> t.columns, m |-> t.corr, exc |-> SinExc]

\* abs(valor_corr) >= umbral and not pd.isna(valor_corr), line 52
Significativa(valor, umbral) == RGe(RAbs(valor), umbral) /\ ~IsNaN(valor)

\* the loop of lines 46-53 from pair (i, j) on: the pairs i < j in matrix
\* order whose value passes the test
RECURSIVE ParesDesde(_, _, _, _)
ParesDesde(c, umbral, i, j) ==
  IF i > Len(c.columns) THEN <<>>
  ELSE IF j > Len(c.columns) THEN ParesDesde(c, umbral, i + 1, i + 2)
  ELSE (IF Significativa(c.m[i][j], umbral)
        THEN <<[col1 |-> c.columns[i], col2 |-> c.columns[j], valor |-> c.m[i][j]]>>
        ELSE <<>>)
       \o ParesDesde(c, umbral, i, j + 1)

InsertarDescAntes(x, s) ==
  LET antes == Posiciones([k \in 1..Len(s) |-> RGt(RAbs(s[k].valor), RAbs(x.valor))])
      despues == Posiciones([k \in 1..Len(s) |-> ~RGt(RAbs(s[k].valor), RAbs(x.valor))])
  IN  Elegir(s, antes) \o <<x>> \o Elegir(s, despues)

\* x put into s, which is sorted by descending |valor|, behind the entries
\* whose |valor| is not smaller: equal keys keep their order
InsertarDesc(x, s) ==
  LET antes == Posiciones([k \in 1..Len(s) |-> RGe(RAbs(s[k].valor), RAbs(x.valor))])
      despues == Posiciones([k \in 1..Len(s) |-> ~RGe(RAbs(s[k].valor), RAbs(x.valor))])
  IN  Elegir(s, antes) \o <<x>> \o Elegir(s, despues)

\* list.sort(key=lambda x: abs(x[2]), reverse=True), line 56: a stable sort
RECURSIVE OrdenarDesc(_, _)
OrdenarDesc(hecho, resto) ==
  IF resto = <<>> THEN hecho
  ELSE OrdenarDesc(InsertarDesc(Head(resto), hecho), Tail(resto))

\* correlaciones_significativas(df, umbral, metodo): [res, exc]
correlaciones_significativas(t, umbral, metodo) ==
  Unico({IF Falla(c.exc) THEN [res |-> <<>>, exc |-> c.exc]
         ELSE [res |-> OrdenarDesc(<<>>, ParesDesde(c, umbral, 1, 2)),
               exc |-> SinExc] :
         c \in {matriz_correlacion(t, metodo)}})

IntensidadEstricta(valor) ==
  IF RGt(RAbs(valor), Rat(9, 10)) THEN "muy fuerte"
  ELSE IF RGt(RAbs(valor), Rat(7, 10)) THEN "fuerte"
  ELSE IF RGt(RAbs(valor), Rat(5, 10)) THEN "moderada"
  ELSE IF RGt(RAbs(valor), Rat(3, 10)) THEN "debil"
  ELSE "muy debil"

\* the intensidad of lines 71-82
Intensidad(valor) ==
  IF RGe(RAbs(valor), Rat(9, 10)) THEN "muy fuerte"
  ELSE IF RGe(RAbs(valor), Rat(7, 10)) THEN "fuerte"
  ELSE IF RGe(RAbs(valor), Rat(5, 10)) THEN "moderada"
  ELSE IF RGe(RAbs(valor), Rat(3, 10)) THEN "debil"
  ELSE "muy debil"

\* interpretar_correlacion(valor): the two words of the returned text
interpretar_correlacion(valor) ==
  [intensidad |-> Intensidad(valor),
   direccion |-> IF RGt(valor, R(0)) THEN "positiva" ELSE "negativa"]

\* generar_recomendaciones_correlacion(interpretaciones), lines 147-187: each
\* recommendation is the kind of its text and the count the text carries
Recomendacion(tipo, cantidad) == [tipo |-> tipo, cantidad |-> cantidad]

generar_recomendaciones_correlacion(interpretaciones) ==
  LET n == Len(interpretaciones)
      muy_fuertes == Cuenta([k \in 1..n |->
                        RGe(RAbs(interpretaciones[k].correlacion), Rat(9, 10))])
      negativas_fuertes == Cuenta([k \in 1..n |->
                        RLe(interpretaciones[k].correlacion, Rat(-7, 10))])
      positivas_fuertes == Cuenta([k \in 1..n |->
                        RGe(interpretaciones[k].correlacion, Rat(7, 10))])
  IN  IF n = 0 THEN <<Recomendacion("sin correlaciones significativas", 0)>>
      ELSE (IF muy_fuertes > 0
            THEN <<Recomendacion("muy fuertes", muy_fuertes)>> ELSE <<>>)
           \o (IF negativas_fuertes > 0
               THEN <<Recomendacion("negativas fuertes", negativas_fuertes)>> ELSE <<>>)
           \o (IF positivas_fuertes > 0
               THEN <<Recomendacion("positivas fuertes", positivas_fuertes)>> ELSE <<>>)

\* the non-NaN values of the upper triangle, lines 117-122
RECURSIVE ValoresCorrDesde(_, _, _)
ValoresCorrDesde(c, i, j) ==
  IF i > Len(c.columns) THEN <<>>
  ELSE IF j > Len(c.columns) THEN ValoresCorrDesde(c, i + 1, i + 2)
  ELSE (IF IsNaN(c.m[i][j]) THEN <<>> ELSE <<c.m[i][j]>>)
       \o ValoresCorrDesde(c, i, j + 1)

AnalisisFallidoConRecomendacion(e) ==
  [claves |-> {"error", "matriz_correlacion", "correlaciones_significativas",
               "estadisticas_generales", "recomendaciones"},
   error |-> <<"Error en el analisis de correlaciones", e.mensaje>>,
   matriz_correlacion |-> [es_none |-> TRUE, columns |-> <<>>, m |-> <<>>],
   correlaciones_significativas |-> <<>>,
   estadisticas_generales |-> <<>>,
   recomendaciones |-> generar_recomendaciones_correlacion(<<>>)]

\* the dictionary of the except branch, lines 138-144: matriz_correlacion is
\* None and the three collections are empty
AnalisisFallido(e) ==
  [claves |-> {"error", "matriz_correlacion", "correlaciones_significativas",
               "estadisticas_generales", "recomendaciones"},
   error |-> <<"Error en el analisis de correlaciones", e.mensaje>>,
   matriz_correlacion |-> [es_none |-> TRUE, columns |-> <<>>, m |-> <<>>],
   correlaciones_significativas |-> <<>>,
   estadisticas_generales |-> <<>>,
   recomendaciones |-> <<>>]

\* the interpretaciones of lines 108-114
Interpretaciones(sig) ==
  [k \in 1..Len(sig) |->
     [variables |-> <<sig[k].col1, sig[k].col2>>,
      correlacion |-> sig[k].valor,
      interpretacion |-> interpretar_correlacion(sig[k].valor)]]

\* analisis_correlacion_completo(df, umbral): the dictionary returned; every
\* exception of the body is caught at line 137
analisis_correlacion_completo(t, umbral) ==
  Unico({IF Falla(c.exc) THEN AnalisisFallido(c.exc)
         ELSE IF Falla(sig.exc) THEN AnalisisFallido(sig.exc)
         ELSE Unico({
           [claves |-> {"matriz_correlacion", "correlaciones_significativas",
                        "estadisticas_generales", "recomendaciones"},
            error |-> <<>>,
            matriz_correlacion |-> [es_none |-> FALSE, columns |-> c.columns, m |-> c.m],
            correlaciones_significativas |-> Interpretaciones(sig.res),
            estadisticas_generales |->
              \* np.mean of the empty list is NaN (and a warning)
              [correlacion_promedio |-> Media(vals),
               correlacion_maxima |-> IF vals = <<>> THEN R(0) ELSE Maximo(vals),
               correlacion_minima |-> IF vals = <<>> THEN R(0) ELSE Minimo(vals),
               total_pares_variables |-> Len(vals),
               pares_significativos |-> Len(sig.res)],
            recomendaciones |->
              generar_recomendaciones_correlacion(Interpretaciones(sig.res))] :
           vals \in {ValoresCorrDesde(c, 1, 2)}}) :
         c \in {matriz_correlacion(t, "pearson")},
         sig \in {correlaciones_significativas(t, umbral, "pearson")}})

(***************************************************************************)
(* cargador_datos.py.  A file is what the loader can observe of it: whether *)
(* it exists, its extension, its lines (a line is a sequence of one-        *)
(* character strings, without the line ending), what chardet.detect says    *)
(* of its first bytes, and for the other formats what the reading library   *)
(* finds in it.  The character xE9 stands for the byte 0xE9 followed by an  *)
(* ASCII byte: a letter in latin-1, cp1252 and iso-8859-1, and not valid    *)
(* UTF-8.  Files are shorter than the 8192 bytes a text stream reads and    *)
(* decodes at once.                                                         *)
(***************************************************************************)
ByteE9 == "xE9"

Tab == "\t"

\* the encodings in which every byte of the files decodes
SinErrorDeDecodificacion == {"latin-1", "cp1252", "iso-8859-1", "Windows-1252"}

LineaDecodifica(linea, encoding) ==
  encoding \in SinErrorDeDecodificacion \/ ~Contiene(linea, ByteE9)

\* the codec accepts every byte of the file
Decodifica(archivo, encoding) ==
  \A k \in 1..Len(archivo.lineas) : LineaDecodifica(archivo.lineas[k], encoding)

\* detectar_encoding(ruta_archivo), lines 43-57
detectar_encoding(archivo) ==
  IF ~archivo.existe THEN "utf-8"
  ELSE IF archivo.chardet = "None" THEN "utf-8"
  ELSE IF archivo.chardet \in {"ascii", "ASCII"} THEN "utf-8"
  ELSE IF archivo.chardet \in {"ISO-8859-1", "ISO-8859-9"} THEN "latin-1"
  ELSE archivo.chardet

\* str.count(sep) for a one-character sep
Contar(linea, sep) == Cardinality({k \in 1..Len(linea) : linea[k] = sep})

\* separadores_comunes, line 70
SeparadoresComunes == <<",", ";", Tab, "|">>

\* max(conteos, key=conteos.get) over a dictionary filled in the order of
\* separadores_comunes: the first key with the largest count
MaxConteo(linea) ==
  LET mayor(k) == \A j \in 1..Len(SeparadoresComunes) :
                     Contar(linea, SeparadoresComunes[j])
                       <= Contar(linea, SeparadoresComunes[k])
  IN  SeparadoresComunes[CHOOSE k \in 1..Len(SeparadoresComunes) :
         mayor(k) /\ \A j \in 1..(k - 1) : ~mayor(j)]

\* archivo.readline(): the first line, after the stream decoded the first
\* block of the file ('' at the end of the file)
PrimeraLinea(archivo) == IF archivo.lineas = <<>> THEN <<>> ELSE archivo.lineas[1]

PrimeraLineaDecodifica(archivo, encoding) ==
  archivo.lineas = <<>> \/ LineaDecodifica(archivo.lineas[1], encoding)

\* detectar_separador_csv(ruta_archivo, encoding), lines 70-90: open() or
\* readline() raising (no such file, or a byte of the block read that the
\* codec rejects) ends in the except branch
detectar_separador_csv(archivo, encoding) ==
  IF ~archivo.existe \/ ~Decodifica(archivo, encoding) THEN ","
  ELSE IF Contar(PrimeraLinea(archivo), MaxConteo(PrimeraLinea(archivo))) = 0 THEN ","
  ELSE MaxConteo(PrimeraLinea(archivo))

(***************************************************************************)
(* Reading delimited text.  A loaded table is its column labels and its    *)
(* rows; a cell is the sequence of characters of its field.                *)
(***************************************************************************)
TablaLeida(columnas, filas) == [columnas |-> columnas, filas |-> filas]

SinTabla == TablaLeida(<<>>, <<>>)

\* the fields of a line cut at every sep
RECURSIVE CamposDesde(_, _, _, _)
CamposDesde(linea, sep, k, campo) ==
  IF k > Len(linea) THEN <<campo>>
  ELSE IF linea[k] = sep THEN <<campo>> \o CamposDesde(linea, sep, k + 1, <<>>)
  ELSE CamposDesde(linea, sep, k + 1, Append(campo, linea[k]))

Campos(linea, sep) == CamposDesde(linea, sep, 1, <<>>)

\* the tokenizer accepts any header and first row, and then refuses a row
\* with more fields than it has seen in a line so far
FilaSobrante(archivo, sep) ==
  \E k \in 3..Len(archivo.lineas) :
     \A j \in 1..(k - 1) :
        Len(Campos(archivo.lineas[k], sep)) > Len(Campos(archivo.lineas[j], sep))

\* the first nrows rows (DataFrame.head, and the nrows of a reader)
TomarFilas(t, nrows) ==
  IF nrows >= Len(t.filas) THEN t
  ELSE [columnas |-> t.columnas, filas |-> SubSeq(t.filas, 1, nrows)]

\* pd.read_csv(ruta, encoding=..., sep=...): [df, exc].  The first line is
\* the header.  When the file has both a byte the codec rejects and a row
\* too long, primero says which one the parser meets first.
read_csv(archivo, encoding, sep, primero) ==
  IF ~archivo.existe
  THEN [df |-> SinTabla, exc |-> Exc("FileNotFoundError", "No such file or directory")]
  ELSE IF archivo.lineas = <<>>
  THEN [df |-> SinTabla, exc |-> Exc("EmptyDataError", "No columns to parse from file")]
  ELSE IF ~Decodifica(archivo, encoding)
          /\ (~FilaSobrante(archivo, sep) \/ primero = "UnicodeDecodeError")
  THEN [df |-> SinTabla, exc |-> Exc("UnicodeDecodeError", encoding)]
  ELSE IF FilaSobrante(archivo, sep)
  THEN [df |-> SinTabla, exc |-> Exc("ParserError", "Error tokenizing data")]
  ELSE [df |-> TablaLeida(Campos(archivo.lineas[1], sep),
                          [k \in 1..(Len(archivo.lineas) - 1) |->
                             Campos(archivo.lineas[k + 1], sep)]),
        exc |-> SinExc]

(***************************************************************************)
(* The loader's dictionaries (kwargs, metadatos) are functions from keys.  *)
(***************************************************************************)
Tiene(d, k) == k \in DOMAIN d

\* dict.get(k, defecto)
Get(d, k, defecto) == IF Tiene(d, k) THEN d[k] ELSE defecto

\* dict.update(nuevo), and {**d, **nuevo}
Update(d, nuevo) ==
  [k \in DOMAIN d \cup DOMAIN nuevo |-> IF k \in DOMAIN nuevo THEN nuevo[k] ELSE d[k]]

EncodingsAlternativosOtroOrden == <<"cp1252", "latin-1", "iso-8859-1">>

\* encodings_alternativos, line 127
EncodingsAlternativos == <<"latin-1", "cp1252", "iso-8859-1">>

\* the loop of lines 129-136 from the k-th alternative on; m is
\* self.metadatos, intentos the encodings tried so far with their outcome
RECURSIVE ReintentarDesde(_, _, _, _, _, _)
ReintentarDesde(archivo, sep, m, intentos, k, primero) ==
  IF k > Len(EncodingsAlternativos)
  THEN [df |-> SinTabla, metadatos |-> m, intentos |-> intentos,
        exc |-> Exc("ValueError", "No se pudo leer el archivo con ninguna codificacion probada")]
  ELSE Unico({
         IF Falla(r.exc)
         THEN ReintentarDesde(archivo, sep, m,
                Append(intentos, [encoding |-> EncodingsAlternativos[k], exc |-> r.exc.tipo]),
                k + 1, primero)
         ELSE [df |-> r.df,
               metadatos |-> Update(m, [encoding_detectado |-> EncodingsAlternativos[k]]),
               intentos |-> Append(intentos,
                              [encoding |-> EncodingsAlternativos[k], exc |-> ""]),
               exc |-> SinExc] :
         r \in {read_csv(archivo, EncodingsAlternativos[k], sep, primero)}})

\* _cargar_csv(ruta_archivo, **kwargs) with self.metadatos = m:
\* [df, metadatos, intentos, exc]
CargarCSV(archivo, kwargs, m, primero) ==
  Unico({Unico({
     IF ~Falla(r.exc)
     THEN [df |-> r.df,
           metadatos |-> Update(m, [formato |-> "CSV", encoding_detectado |-> encoding,
                                    separador_detectado |-> separador,
                                    filas |-> Len(r.df.filas),
                                    columnas |-> Len(r.df.columnas)]),
           intentos |-> <<[encoding |-> encoding, exc |-> ""]>>, exc |-> SinExc]
     ELSE IF r.exc.tipo = "UnicodeDecodeError"
     THEN ReintentarDesde(archivo, separador, m,
             <<[encoding |-> encoding, exc |-> r.exc.tipo]>>, 1, primero)
     ELSE [df |-> SinTabla, metadatos |-> m,
           intentos |-> <<[encoding |-> encoding, exc |-> r.exc.tipo]>>, exc |-> r.exc] :
     r \in {read_csv(archivo, encoding, separador, primero)}}) :
   encoding \in {Get(kwargs, "encoding", detectar_encoding(archivo))},
   separador \in {Get(kwargs, "sep",
                      detectar_separador_csv(archivo,
                         Get(kwargs, "encoding", detectar_encoding(archivo))))}})

\* str.endswith('.txt') on the path as the caller wrote it
TerminaTxt(archivo) == archivo.sufijo = ".txt"

\* _cargar_texto(ruta_archivo, **kwargs), lines 226-242
CargarTexto(archivo, kwargs, m, primero) ==
  Unico({
     CargarCSV(archivo,
        [encoding |-> encoding,
         sep |-> IF separador = "," /\ TerminaTxt(archivo)
                 THEN Get(kwargs, "sep", Tab) ELSE separador,
         header |-> Get(kwargs, "header", 0)],
        m, primero) :
   encoding \in {Get(kwargs, "encoding", detectar_encoding(archivo))},
   separador \in {Get(kwargs, "sep",
                      detectar_separador_csv(archivo,
                         Get(kwargs, "encoding", detectar_encoding(archivo))))}})

\* _cargar_tsv(ruta_archivo, **kwargs), lines 244-247
CargarTSV(archivo, kwargs, m, primero) ==
  CargarCSV(archivo, Update(kwargs, [sep |-> Tab]), m, primero)

(***************************************************************************)
(* JSON documents: a scalar, an array of values, or an object (its keys in *)
(* document order and their values).                                       *)
(***************************************************************************)
JEscalar(v) == [clase |-> "escalar", valor |-> v]

JArreglo(elementos) == [clase |-> "arreglo", elementos |-> elementos]

JObjeto(claves, valores) == [clase |-> "objeto", claves |-> claves, valores |-> valores]

\* isinstance(v, list), isinstance(v, dict)
EsLista(v) == v.clase = "arreglo"

EsDict(v) == v.clase = "objeto"

\* pd.DataFrame(v) for a parsed document v: [df, exc].  A list of objects
\* gives one row per object (columns from the first), a list of scalars one
\* column named 0; a dict gives one column per key when its list values
\* have one length (scalars are repeated), and fails otherwise.
DataFrameDe(v) ==
  IF EsLista(v)
  THEN IF v.elementos = <<>> THEN [df |-> SinTabla, exc |-> SinExc]
       ELSE IF EsDict(v.elementos[1])
       THEN [df |-> TablaLeida(v.elementos[1].claves,
                      [k \in 1..Len(v.elementos) |->
                         IF EsDict(v.elementos[k]) THEN v.elementos[k].valores
                         ELSE <<v.elementos[k]>>]),
             exc |-> SinExc]
       ELSE [df |-> TablaLeida(<<"0">>, [k \in 1..Len(v.elementos) |-> <<v.elementos[k]>>]),
             exc |-> SinExc]
  ELSE IF EsDict(v)
  THEN LET listas == {k \in 1..Len(v.valores) : EsLista(v.valores[k])}
           largos == {Len(v.valores[k].elementos) : k \in listas}
       IN  IF v.claves = <<>> THEN [df |-> SinTabla, exc |-> SinExc]
           ELSE IF listas = {}
           THEN [df |-> SinTabla,
                 exc |-> Exc("ValueError", "If using all scalar values, you must pass an index")]
           ELSE IF Cardinality(largos) > 1
           THEN [df |-> SinTabla,
                 exc |-> Exc("ValueError", "All arrays must be of the same length")]
           ELSE [df |-> TablaLeida(v.claves,
                          [i \in 1..Unico(largos) |->
                             [k \in 1..Len(v.valores) |->
                                IF k \in listas THEN v.valores[k].elementos[i]
                                ELSE v.valores[k]]]),
                 exc |-> SinExc]
  ELSE [df |-> SinTabla, exc |-> Exc("ValueError", "DataFrame constructor not properly called!")]

\* datos_json['data'] of an object that has the key
ValorDe(v, clave) == v.valores[Posicion(v.claves, clave)]

\* the branches of lines 182-194: [df, exc]
DataFrameDeJSON(v) ==
  IF EsLista(v) THEN DataFrameDe(v)
  ELSE IF EsDict(v)
  THEN IF Contiene(v.claves, "data") THEN DataFrameDe(ValorDe(v, "data"))
       ELSE IF \A k \in 1..Len(v.valores) : EsLista(v.valores[k]) THEN DataFrameDe(v)
       ELSE DataFrameDe(JArreglo(<<v>>))
  ELSE [df |-> SinTabla, exc |-> Exc("ValueError", "Estructura JSON no soportada")]

\* _cargar_json(ruta_archivo, **kwargs) with self.metadatos = m, lines 173-207
CargarJSON(archivo, kwargs, m) ==
  IF ~archivo.json_valido
  THEN [df |-> SinTabla, metadatos |-> m, intentos |-> <<>>,
        exc |-> Exc("ValueError", "Error al leer archivo JSON")]
  ELSE Unico({
         IF Falla(r.exc)
         THEN [df |-> SinTabla, metadatos |-> m, intentos |-> <<>>,
               exc |-> Exc("ValueError", "Error al leer archivo JSON")]
         ELSE [df |-> r.df,
               metadatos |-> Update(m, [formato |-> "JSON",
                                        encoding |-> Get(kwargs, "encoding", "utf-8"),
                                        filas |-> Len(r.df.filas),
                                        columnas |-> Len(r.df.columnas)]),
               intentos |-> <<>>, exc |-> SinExc] :
         r \in {DataFrameDeJSON(archivo.json)}})

\* _cargar_excel(ruta_archivo, **kwargs), lines 140-171: read_excel accepts
\* sheet_name and no key of the text readers
CargarExcel(archivo, kwargs, m) ==
  IF ~archivo.legible \/ archivo.hojas = <<>>
       \/ DOMAIN kwargs \ {"sheet_name"} # {}
       \/ ~Contiene(archivo.hojas, Get(kwargs, "sheet_name", archivo.hojas[1]))
  THEN [df |-> SinTabla, metadatos |-> m, intentos |-> <<>>,
        exc |-> Exc("ValueError", "Error al leer archivo Excel")]
  ELSE Unico({
         [df |-> t,
          metadatos |-> Update(m, [formato |-> "Excel",
                                   hojas_disponibles |-> archivo.hojas,
                                   hoja_cargada |-> Get(kwargs, "sheet_name", archivo.hojas[1]),
                                   filas |-> Len(t.filas),
                                   columnas |-> Len(t.columnas)]),
          intentos |-> <<>>, exc |-> SinExc] :
         t \in {archivo.tablas[Posicion(archivo.hojas,
                                  Get(kwargs, "sheet_name", archivo.hojas[1]))]}})

\* _cargar_parquet(ruta_archivo, **kwargs), lines 209-224: the engine accepts
\* no key of the text readers
CargarParquet(archivo, kwargs, m) ==
  IF ~archivo.legible \/ DOMAIN kwargs # {}
  THEN [df |-> SinTabla, metadatos |-> m, intentos |-> <<>>,
        exc |-> Exc("ValueError", "Error al leer archivo Parquet")]
  ELSE [df |-> archivo.tablas[1],
        metadatos |-> Update(m, [formato |-> "Parquet",
                                 filas |-> Len(archivo.tablas[1].filas),
                                 columnas |-> Len(archivo.tablas[1].columnas)]),
        intentos |-> <<>>, exc |-> SinExc]

\* Path(ruta_archivo).suffix.lower()
Extension(archivo) ==
  CASE archivo.sufijo = ".TXT" -> ".txt"
    [] archivo.sufijo = ".CSV" -> ".csv"
    [] OTHER -> archivo.sufijo

\* the keys of self.formatos_soportados, lines 19-27
FormatosSoportados == {".csv", ".xlsx", ".xls", ".json", ".parquet", ".txt", ".tsv"}

\* self.formatos_soportados[extension](ruta_archivo, **kwargs)
Cargador(archivo, kwargs, m, primero) ==
  CASE Extension(archivo) = ".csv" -> CargarCSV(archivo, kwargs, m, primero)
    [] Extension(archivo) \in {".xlsx", ".xls"} -> CargarExcel(archivo, kwargs, m)
    [] Extension(archivo) = ".json" -> CargarJSON(archivo, kwargs, m)
    [] Extension(archivo) = ".parquet" -> CargarParquet(archivo, kwargs, m)
    [] Extension(archivo) = ".txt" -> CargarTexto(archivo, kwargs, m, primero)
    [] Extension(archivo) = ".tsv" -> CargarTSV(archivo, kwargs, m, primero)

\* print of a text with the character U+2713 on a stdout of that encoding
PuedeImprimir(consola) == consola = "utf-8"

\* cargar_archivo(ruta_archivo, **kwargs) on the loader self, lines 260-294:
\* [self, df, hay, exc, intentos]; hay says that a table was returned
cargar_archivo(self, disco, ruta, kwargs, primero, consola) ==
  IF ~disco[ruta].existe
  THEN [self |-> self, df |-> SinTabla, hay |-> FALSE, intentos |-> <<>>,
        exc |-> Exc("FileNotFoundError", "El archivo no existe")]
  ELSE IF Extension(disco[ruta]) \notin FormatosSoportados
  THEN [self |-> self, df |-> SinTabla, hay |-> FALSE, intentos |-> <<>>,
        exc |-> Exc("ValueError", "Formato de archivo no soportado")]
  ELSE Unico({
         IF Falla(r.exc)
         THEN [self |-> [self EXCEPT !.metadatos = r.metadatos],
               df |-> SinTabla, hay |-> FALSE, intentos |-> r.intentos,
               exc |-> Exc("ValueError", "Error al cargar el archivo")]
         ELSE Unico({
                IF PuedeImprimir(consola)
                THEN [self |-> cargado, df |-> r.df, hay |-> TRUE,
                      intentos |-> r.intentos, exc |-> SinExc]
                ELSE [self |-> cargado, df |-> SinTabla, hay |-> FALSE,
                      intentos |-> r.intentos,
                      exc |-> Exc("ValueError", "Error al cargar el archivo")] :
                cargado \in {[ultimo_archivo |-> ruta,
                              ultimo_dataframe |-> r.df,
                              metadatos |-> Update(r.metadatos,
                                 [ruta_archivo |-> ruta,
                                  tamano_archivo_mb |-> disco[ruta].tamano,
                                  fecha_modificacion |-> disco[ruta].fecha])]}}) :
         r \in {Cargador(disco[ruta], kwargs, self.metadatos, primero)}})

\* the dictionary preview_archivo returns, lines 351-371
VistaPrevia(df) ==
  [claves |-> {"preview", "columnas", "tipos_datos", "forma_preview", "archivo_info"},
   preview |-> df, error |-> ""]

VistaFallida(e) ==
  [claves |-> {"error", "archivo_info"}, preview |-> SinTabla, error |-> e.tipo]

\* the except branch of lines 363-371: os.path.getsize raises when the file
\* is not there
PreviewFallida(self, archivo, e) ==
  IF ~archivo.existe
  THEN [self |-> self, res |-> VistaFallida(e),
        exc |-> Exc("FileNotFoundError", "No such file or directory")]
  ELSE [self |-> self, res |-> VistaFallida(e), exc |-> SinExc]

\* preview_archivo(ruta_archivo, num_filas) on the loader self, lines 335-371:
\* [self, res, exc]
preview_archivo(self, disco, ruta, num_filas, primero, consola) ==
  IF Extension(disco[ruta]) = ".csv"
  THEN Unico({
         IF Falla(r.exc) THEN PreviewFallida(self, disco[ruta], r.exc)
         ELSE [self |-> self, res |-> VistaPrevia(TomarFilas(r.df, num_filas)),
               exc |-> SinExc] :
         r \in {read_csv(disco[ruta], detectar_encoding(disco[ruta]),
                         detectar_separador_csv(disco[ruta], detectar_encoding(disco[ruta])),
                         primero)}})
  ELSE IF Extension(disco[ruta]) \in {".xlsx", ".xls"}
  THEN IF ~disco[ruta].existe
       THEN PreviewFallida(self, disco[ruta], Exc("FileNotFoundError", "No such file"))
       ELSE IF ~disco[ruta].legible \/ disco[ruta].hojas = <<>>
       THEN PreviewFallida(self, disco[ruta], Exc("ValueError", "Excel file format"))
       ELSE [self |-> self,
             res |-> VistaPrevia(TomarFilas(disco[ruta].tablas[1], num_filas)),
             exc |-> SinExc]
  ELSE Unico({
         IF Falla(c.exc) THEN PreviewFallida(c.self, disco[ruta], c.exc)
         ELSE [self |-> c.self, res |-> VistaPrevia(TomarFilas(c.df, num_filas)),
               exc |-> SinExc] :
         c \in {cargar_archivo(self, disco, ruta, <<>>, primero, consola)}})

(***************************************************************************)
(* detectar_tipos_columnas (cargador_datos.py lines 390-440).  A column is *)
(* a sequence of cells; a cell is an integer (5), a number with a          *)
(* fraction (1.5), a string that is a date ('2020-01-01'), any other       *)
(* string ('A'), or missing.                                               *)
(***************************************************************************)
Celda(clase, valor) == [clase |-> clase, valor |-> valor]

\* serie.dropna()
DropNaCeldas(serie) == Filtrar(serie, [k \in 1..Len(serie) |-> serie[k].clase # "nulo"])

\* pd.to_numeric(serie, downcast=...): raises on a cell that is not a number;
\* the downcast changes the dtype where it can and leaves it where it cannot
to_numeric(serie, downcast) ==
  IF \E k \in 1..Len(serie) : serie[k].clase \notin {"entero", "decimal"}
  THEN [dtype |-> "", exc |-> Exc("ValueError", "Unable to parse string")]
  ELSE IF \A k \in 1..Len(serie) : serie[k].clase = "entero"
  THEN [dtype |-> IF downcast = "integer" THEN "int8" ELSE "int64", exc |-> SinExc]
  ELSE [dtype |-> "float64", exc |-> SinExc]

\* pd.to_datetime(serie) on strings: raises on a string that is not a date
to_datetime(serie) ==
  IF \E k \in 1..Len(serie) : serie[k].clase # "fecha"
  THEN [dtype |-> "", exc |-> Exc("ValueError", "Unknown datetime string format")]
  ELSE [dtype |-> "datetime64[ns]", exc |-> SinExc]

\* serie.nunique()
nunique(serie) == Cardinality({serie[k] : k \in 1..Len(serie)})

\* lines 403-438: the suggestion for one column
Sugerencia(columna) ==
  LET serie == DropNaCeldas(columna) IN
  IF Len(serie) = 0 THEN "object"
  ELSE IF ~Falla(to_numeric(serie, "integer").exc) THEN "int64"
  ELSE IF ~Falla(to_numeric(serie, "").exc) THEN "float64"
  ELSE IF ~Falla(to_datetime(serie).exc) THEN "datetime64[ns]"
  ELSE IF 2 * nunique(serie) < Len(serie) /\ nunique(serie) < 50 THEN "category"
  ELSE "object"

\* the dictionary of suggestions, one per column of a table [columnas, datos]
detectar_tipos_columnas(t) ==
  [col \in {t.columnas[k] : k \in 1..Len(t.columnas)} |->
     Sugerencia(t.datos[Posicion(t.columnas, col)])]

\* CargadorDatos.obtener_metadatos (lines 296-303): a copy of the metadata
obtener_metadatos(self) == self.metadatos

(***************************************************************************)
(* optimizar_tipos_datos (cargador_datos.py lines 443-487) on a table      *)
(* [columnas, dtypes, datos] of columns of cells.                          *)
(***************************************************************************)
\* pd.to_numeric(serie.astype(str).str.strip(), errors='coerce'), cell by
\* cell: a missing cell becomes the string 'None' or 'nan' and then NaN, a
\* string that is not a number becomes NaN, a number stays
Coaccionar(celda) ==
  IF celda.clase \in {"entero", "decimal"} THEN celda ELSE Celda("nulo", "NaN")

\* the dtype pandas gives to a column of numbers
DTypeNumerico(serie) ==
  IF \A k \in 1..Len(serie) : serie[k].clase = "entero" THEN "int64" ELSE "float64"

\* lines 456-485 for one column: [dtype, datos]
OptimizarColumna(dtype, serie_original) ==
  IF \A k \in 1..Len(serie_original) : serie_original[k].clase = "nulo"
  THEN [dtype |-> dtype, datos |-> serie_original]
  ELSE IF dtype = "object"
  THEN Unico({
         \* serie_numerica.notna().sum() / len(serie_original) > 0.8
         IF 10 * Cardinality({k \in 1..Len(serie_numerica) :
                                 serie_numerica[k].clase # "nulo"})
               > 8 * Len(serie_original)
         THEN [dtype |-> DTypeNumerico(serie_numerica), datos |-> serie_numerica]
         ELSE [dtype |-> dtype, datos |-> serie_original] :
         serie_numerica \in {[k \in 1..Len(serie_original) |->
                                Coaccionar(serie_original[k])]}})
  ELSE IF dtype = "int64"
  THEN [dtype |-> to_numeric(serie_original, "integer").dtype, datos |-> serie_original]
  ELSE IF dtype = "float64"
  THEN [dtype |-> "float32", datos |-> serie_original]
  ELSE [dtype |-> dtype, datos |-> serie_original]

\* optimizar_tipos_datos(df): the table returned, built on a copy of df
optimizar_tipos_datos(t) ==
  [columnas |-> t.columnas,
   dtypes |-> [k \in 1..Len(t.columnas) |->
                 OptimizarColumna(t.dtypes[k], t.datos[k]).dtype],
   datos |-> [k \in 1..Len(t.columnas) |->
                 OptimizarColumna(t.dtypes[k], t.datos[k]).datos]]

(***************************************************************************)
(* ValidadorDatos (validaciones.py lines 13-286).  The instance keeps two  *)
(* Python lists.  A list is an object of the memory m, a sequence of       *)
(* lists; an attribute or a dictionary entry names a list by its position  *)
(* in m.  A table is [columnas, dtypes, datos, filas]: the column names    *)
(* are sequences of characters, the columns are sequences of cells.  A     *)
(* message is the tuple of the parts of its f-string.                      *)
(***************************************************************************)
\* the numbers the cells of the tables below stand for
ValorNumerico(celda) ==
  IF celda.clase \notin {"entero", "decimal"} THEN NaN
  ELSE CASE celda.valor = "1" -> R(1)
         [] celda.valor = "7" -> R(7)
         [] celda.valor = "1.5" -> Rat(3, 2)
         [] OTHER -> NaN

\* float(str(valor)) succeeds; with reemplaza, float(str(valor).replace(',', '.'))
ParseaFloat(celda, reemplaza) ==
  \/ celda.clase \in {"entero", "decimal"}
  \/ reemplaza /\ celda = Celda("texto", "1,5")

\* re.search(r'\d{1,4}[-/]\d{1,2}[-/]\d{1,4}', valor)
PareceFecha(celda) == celda.clase = "fecha"

\* re.match('[0-9]', str(valor)): the text of the cell starts with a digit
EmpiezaConDigito(celda) ==
  celda.clase \in {"entero", "decimal", "fecha"} \/ celda = Celda("texto", "1,5")

\* serie.head(n)
Primeras(serie, n) == SubSeq(serie, 1, IF Len(serie) < n THEN Len(serie) ELSE n)

\* format(x, '.1f') of a rational x >= 0, as a number of tenths: the nearest
\* tenth, the even one on a tie
Formato1f(x) ==
  LET q == (10 * x[1]) \div x[2]
      r == (10 * x[1]) % x[2]
  IN  IF 2 * r > x[2] \/ (2 * r = x[2] /\ q % 2 = 1) THEN q + 1 ELSE q

\* df.empty: no rows or no columns
EstaVacio(t) == t.filas = 0 \/ Len(t.columnas) = 0

\* df.columns.duplicated(): a name seen before
NombreRepetido(t, k) == \E j \in 1..(k - 1) : t.columnas[j] = t.columnas[k]

\* a name that labels more than one column: df[col] is then a table
EtiquetaRepetida(t, k) ==
  \E j \in 1..Len(t.columnas) : j # k /\ t.columnas[j] = t.columnas[k]

\* line 95
CaracteresProblematicos == {"/", "\\", ":", "*", "?", "\"", "<", ">", "|"}

Blancos == {" ", "\t", "\n", "\r"}

\* str.strip()
RECURSIVE Strip(_)
Strip(s) ==
  IF s = <<>> THEN s
  ELSE IF Head(s) \in Blancos THEN Strip(Tail(s))
  ELSE IF s[Len(s)] \in Blancos THEN Strip(SubSeq(s, 1, Len(s) - 1))
  ELSE s

\* the messages a loop over the columns appends: Mensaje(k) where Cond(k)
MensajesDe(t, Cond(_), Mensaje(_)) ==
  Filtrar([k \in 1..Len(t.columnas) |-> Mensaje(k)],
          [k \in 1..Len(t.columnas) |-> Cond(k)])

\* _validar_nombres_columnas (lines 84-109)
_validar_nombres_columnas(t) ==
  LET columnas_duplicadas ==
        Filtrar(t.columnas, [k \in 1..Len(t.columnas) |-> NombreRepetido(t, k)])
      Problematico(k) ==
        \E i \in 1..Len(t.columnas[k]) : t.columnas[k][i] \in CaracteresProblematicos
      ConEspacios(k) == t.columnas[k] # Strip(t.columnas[k])
      MuyLargo(k) == Len(t.columnas[k]) > 100
  IN  (IF columnas_duplicadas # <<>>
       THEN <<<<"Columnas duplicadas encontradas", columnas_duplicadas>>>>
       ELSE <<>>)
      \o MensajesDe(t, Problematico,
                    LAMBDA k : <<"Columna", t.columnas[k],
                                 "contiene caracteres problematicos">>)
      \o MensajesDe(t, ConEspacios,
                    LAMBDA k : <<"Columna", t.columnas[k],
                                 "tiene espacios al inicio o final">>)
      \o MensajesDe(t, MuyLargo,
                    LAMBDA k : <<"Columna", t.columnas[k],
                                 "tiene un nombre muy largo (>100 caracteres)">>)

\* lines 115-145 for column k: [problemas, exc]
TiposDeColumna(t, k) ==
  IF EtiquetaRepetida(t, k)
  THEN [problemas |-> <<>>,
        exc |-> Exc("AttributeError", "'DataFrame' object has no attribute 'dtype'")]
  ELSE IF t.dtypes[k] # "object" \/ t.filas = 0
  THEN [problemas |-> <<>>, exc |-> SinExc]
  ELSE LET muestra == Primeras(DropNaCeldas(t.datos[k]), 100)
           numericos == Cardinality({i \in 1..Len(muestra) : ParseaFloat(muestra[i], TRUE)})
           muestra_str == Primeras(DropNaCeldas(t.datos[k]), 50)
           posibles_fechas == Cardinality({i \in 1..Len(muestra_str) :
                                              PareceFecha(muestra_str[i])})
       IN  IF Len(muestra) = 0
           THEN [problemas |-> <<>>,
                 exc |-> Exc("ZeroDivisionError", "division by zero")]
           ELSE [problemas |->
                   (IF 10 * numericos > 8 * Len(muestra)
                    THEN <<<<"Columna", t.columnas[k],
                             "parece numerica pero esta como texto">>>>
                    ELSE <<>>)
                   \o (IF 10 * posibles_fechas > 7 * Len(muestra_str)
                       THEN <<<<"Columna", t.columnas[k],
                                "parece contener fechas sin formato datetime">>>>
                       ELSE <<>>),
                 exc |-> SinExc]

\* the loop of line 115 from column k on
RECURSIVE TiposDesde(_, _)
TiposDesde(t, k) ==
  IF k > Len(t.columnas) THEN [problemas |-> <<>>, exc |-> SinExc]
  ELSE LET esta == TiposDeColumna(t, k) IN
       IF Falla(esta.exc) THEN esta
       ELSE LET resto == TiposDesde(t, k + 1) IN
            IF Falla(resto.exc) THEN resto
            ELSE [problemas |-> esta.problemas \o resto.problemas, exc |-> SinExc]

\* _validar_tipos_datos (lines 111-147): [problemas, exc]
_validar_tipos_datos(t) == TiposDesde(t, 1)

\* df[col].isnull().sum()
NulosEn(t, k) == Cardinality({i \in 1..t.filas : t.datos[k][i].clase = "nulo"})

\* df[col].nunique(dropna=True)
UnicosEn(t, k) == nunique(DropNaCeldas(t.datos[k]))

\* df.isnull().all(axis=1).sum()
FilasSinDatos(t) ==
  Cardinality({i \in 1..t.filas :
                 \A k \in 1..Len(t.columnas) : t.datos[k][i].clase = "nulo"})

\* _detectar_problemas_calidad (lines 149-178); with no rows the percentage
\* is NaN and exceeds nothing
_detectar_problemas_calidad(t) ==
  LET pct_nulos(k) == RMul(Rat(NulosEn(t, k), t.filas), R(100))
      MuchosNulos(k) == RGt(pct_nulos(k), R(50))
      UnSoloValor(k) == UnicosEn(t, k) = 1 /\ t.filas > 1
      AltaCardinalidad(k) ==
        t.dtypes[k] \in {"object", "category"} /\ 10 * UnicosEn(t, k) > 8 * t.filas
      filas_vacias == FilasSinDatos(t)
  IN  MensajesDe(t, MuchosNulos,
                 LAMBDA k : <<"Columna", t.columnas[k], "tiene",
                              Formato1f(pct_nulos(k)), "% de valores nulos">>)
      \o MensajesDe(t, UnSoloValor,
                    LAMBDA k : <<"Columna", t.columnas[k], "tiene un solo valor unico">>)
      \o MensajesDe(t, AltaCardinalidad,
                    LAMBDA k : <<"Columna", t.columnas[k], "tiene muy alta cardinalidad",
                                 UnicosEn(t, k)>>)
      \o (IF filas_vacias > 0
          THEN <<<<"Encontradas", filas_vacias, "filas completamente vacias">>>>
          ELSE <<>>)

\* the column named columna, when columna in df.columns
ColumnaDe(t, columna) == t.datos[Posicion(t.columnas, columna)]

\* lines 186-205: the errors of a rango_numerico rule; None is <<>>
ReglaRango(t, nombre_regla, configuracion) ==
  LET columna == configuracion["columna"]
      min_val == Get(configuracion, "min", <<>>)
      max_val == Get(configuracion, "max", <<>>)
  IN  IF ~Contiene(t.columnas, columna) THEN <<>>
      ELSE LET serie == [i \in 1..t.filas |-> ValorNumerico(ColumnaDe(t, columna)[i])]
               menores == IF min_val = <<>> THEN 0
                          ELSE Cardinality({i \in 1..t.filas : RLt(serie[i], min_val)})
               mayores == IF max_val = <<>> THEN 0
                          ELSE Cardinality({i \in 1..t.filas : RGt(serie[i], max_val)})
           IN  (IF menores > 0
                THEN <<<<"Regla", nombre_regla, menores, "valores menores que", min_val>>>>
                ELSE <<>>)
               \o (IF mayores > 0
                   THEN <<<<"Regla", nombre_regla, mayores, "valores mayores que",
                            max_val>>>>
                   ELSE <<>>)

\* lines 207-219: the errors of a valores_permitidos rule
ReglaPermitidos(t, nombre_regla, configuracion) ==
  LET columna == configuracion["columna"]
      valores_permitidos == configuracion["valores"]
  IN  IF ~Contiene(t.columnas, columna) THEN <<>>
      ELSE LET presentes == DropNaCeldas(ColumnaDe(t, columna))
               valores_actuales == {presentes[i].valor : i \in 1..Len(presentes)}
               valores_invalidos == valores_actuales \ valores_permitidos
           IN  IF valores_invalidos # {}
               THEN <<<<"Regla", nombre_regla, "Valores no permitidos encontrados",
                        valores_invalidos>>>>
               ELSE <<>>

\* lines 221-233: the errors of a patron_regex rule whose pattern compiles
ReglaPatron(t, nombre_regla, configuracion) ==
  LET columna == configuracion["columna"] IN
  IF ~Contiene(t.columnas, columna) THEN <<>>
  ELSE LET violaciones ==
             Cardinality({i \in 1..t.filas : ~EmpiezaConDigito(ColumnaDe(t, columna)[i])})
       IN  IF violaciones > 0
           THEN <<<<"Regla", nombre_regla, violaciones,
                    "valores no coinciden con el patron">>>>
           ELSE <<>>

\* the key a rule reads with configuracion[...] and does not have, or ""
ClaveFaltante(configuracion) ==
  IF ~Tiene(configuracion, "tipo") THEN "tipo"
  ELSE IF configuracion["tipo"] \notin {"rango_numerico", "valores_permitidos",
                                        "patron_regex"}
  THEN ""
  ELSE IF ~Tiene(configuracion, "columna") THEN "columna"
  ELSE IF configuracion["tipo"] = "valores_permitidos" /\ ~Tiene(configuracion, "valores")
  THEN "valores"
  ELSE IF configuracion["tipo"] = "patron_regex" /\ ~Tiene(configuracion, "patron")
  THEN "patron"
  ELSE ""

\* lines 184-236 for one rule: [errores, advertencias]
AplicarRegla(t, nombre_regla, configuracion) ==
  IF ClaveFaltante(configuracion) # ""
  THEN [errores |-> <<>>,
        advertencias |-> <<<<"Error aplicando regla", nombre_regla,
                             ClaveFaltante(configuracion)>>>>]
  ELSE IF configuracion["tipo"] = "rango_numerico"
  THEN [errores |-> ReglaRango(t, nombre_regla, configuracion), advertencias |-> <<>>]
  ELSE IF configuracion["tipo"] = "valores_permitidos"
  THEN [errores |-> ReglaPermitidos(t, nombre_regla, configuracion),
        advertencias |-> <<>>]
  ELSE IF configuracion["tipo"] = "patron_regex"
  THEN IF Contiene(t.columnas, configuracion["columna"])
          /\ configuracion["patron"] = "("
       THEN [errores |-> <<>>,
             advertencias |-> <<<<"Error aplicando regla", nombre_regla,
                                  "missing ), unterminated subpattern at position 0">>>>]
       ELSE [errores |-> ReglaPatron(t, nombre_regla, configuracion),
             advertencias |-> <<>>]
  ELSE [errores |-> <<>>, advertencias |-> <<>>]

\* _aplicar_reglas_personalizadas (lines 180-238); reglas is the dictionary
\* as the sequence of its items
RECURSIVE _aplicar_reglas_personalizadas(_, _)
_aplicar_reglas_personalizadas(t, reglas) ==
  IF reglas = <<>> THEN [errores |-> <<>>, advertencias |-> <<>>]
  ELSE LET una == AplicarRegla(t, Head(reglas)[1], Head(reglas)[2])
           resto == _aplicar_reglas_personalizadas(t, Tail(reglas))
       IN  [errores |-> una.errores \o resto.errores,
            advertencias |-> una.advertencias \o resto.advertencias]

\* _calcular_consistencia_tipos (lines 258-286)
_calcular_consistencia_tipos(t) ==
  IF EstaVacio(t) THEN R(100)
  ELSE LET Penaliza(k) ==
             LET serie == DropNaCeldas(t.datos[k])
                 muestra == Primeras(serie, 100)
                 numericos == Cardinality({i \in 1..Len(muestra) :
                                              ParseaFloat(muestra[i], FALSE)})
             IN  /\ Len(serie) > 0
                 /\ t.dtypes[k] = "object"
                 /\ 10 * numericos > 8 * Len(muestra)
           score == 100 - 10 * Cardinality({k \in 1..Len(t.columnas) : Penaliza(k)})
       IN  R(IF score < 0 THEN 0 ELSE score)

\* row i of the table
FilaDe(t, i) == [k \in 1..Len(t.columnas) |-> t.datos[k][i]]

\* _calcular_metricas_calidad (lines 240-256)
_calcular_metricas_calidad(t) ==
  IF EstaVacio(t) THEN <<>>
  ELSE LET total_celdas == t.filas * Len(t.columnas)
           nulas == {<<k, i>> \in (1..Len(t.columnas)) \X (1..t.filas) :
                        t.datos[k][i].clase = "nulo"}
           filas_completas == {i \in 1..t.filas : \A k \in 1..Len(t.columnas) :
                                                     <<k, i>> \notin nulas}
           columnas_sin_nulos == {k \in 1..Len(t.columnas) : \A i \in 1..t.filas :
                                                                <<k, i>> \notin nulas}
           duplicadas == {i \in 1..t.filas :
                            \E j \in 1..(i - 1) : FilaDe(t, j) = FilaDe(t, i)}
           Pct(n, d) == RMul(Rat(n, d), R(100))
       IN  [completitud_general |-> Pct(total_celdas - Cardinality(nulas), total_celdas),
            filas_completas_pct |-> Pct(Cardinality(filas_completas), t.filas),
            columnas_sin_nulos_pct |->
              Pct(Cardinality(columnas_sin_nulos), Len(t.columnas)),
            duplicados_pct |-> Pct(Cardinality(duplicadas), t.filas),
            consistencia_tipos |-> _calcular_consistencia_tipos(t)]

\* list.extend(items) on the list at position ref
Extender(m, ref, items) == [m EXCEPT ![ref] = @ \o items]

\* ValidadorDatos.__init__ (lines 16-20) on the empty memory
MemoriaNueva == <<<<>>, <<>>>>

ValidadorNuevo == [reglas_validacion |-> <<>>, errores_encontrados |-> 1,
                   advertencias |-> 2]

ReiniciarVaciando(m, self) ==
  [m |-> [m EXCEPT ![self.errores_encontrados] = <<>>, ![self.advertencias] = <<>>],
   self |-> self]

\* lines 33-34: the two attributes are bound to two new empty lists
Reiniciar(m, self) ==
  [m |-> m \o <<<<>>, <<>>>>,
   self |-> [self EXCEPT !.errores_encontrados = Len(m) + 1,
                         !.advertencias = Len(m) + 2]]

SinResultado == [valido |-> FALSE, errores |-> 0, advertencias |-> 0, metricas |-> <<>>]

\* validar_dataframe (lines 22-82): [m, self, hay, resultado, exc]; the
\* entries 'errores' and 'advertencias' of the result name the instance's lists
validar_dataframe(m0, self0, t, reglas) ==
  LET r == Reiniciar(m0, self0)
      self == r.self
      basicos == (IF EstaVacio(t) THEN <<<<"El DataFrame esta vacio">>>> ELSE <<>>)
                 \o (IF Len(t.columnas) = 0
                     THEN <<<<"El DataFrame no tiene columnas">>>> ELSE <<>>)
      m1 == Extender(r.m, self.errores_encontrados, basicos)
      m2 == Extender(m1, self.advertencias, _validar_nombres_columnas(t))
      tipos_datos == _validar_tipos_datos(t)
  IN  IF Falla(tipos_datos.exc)
      THEN [m |-> m2, self |-> self, hay |-> FALSE, resultado |-> SinResultado,
            exc |-> tipos_datos.exc]
      ELSE LET m3 == Extender(m2, self.advertencias,
                              tipos_datos.problemas \o _detectar_problemas_calidad(t))
               personalizados == _aplicar_reglas_personalizadas(t, reglas)
               m4 == Extender(Extender(m3, self.errores_encontrados,
                                       personalizados.errores),
                              self.advertencias, personalizados.advertencias)
           IN  [m |-> m4, self |-> self, hay |-> TRUE,
                resultado |->
                  [valido |-> /\ ~EstaVacio(t)
                              /\ Len(t.columnas) # 0
                              /\ personalizados.errores = <<>>,
                   errores |-> self.errores_encontrados,
                   advertencias |-> self.advertencias,
                   metricas |-> _calcular_metricas_calidad(t)],
                exc |-> SinExc]

(***************************************************************************)
(* The caller: one table, one call of a cleaning function on it, and for   *)
(* the pipeline a second call on the table the first one returned.         *)
(***************************************************************************)
VARIABLES
  df,       \* the caller's table (the object passed to the call), as it is now
  previo,   \* the caller's table as it was when the call was made
  llamada,  \* the call made: the function and its arguments
  salida,   \* what the call returned or raised
  corrida,  \* 0 before the call, then the number of pipeline runs
  deteccion,       \* what detectar_outliers returned or raised
  matriz,          \* the correlation matrix of the caller's table
  significativas,  \* what correlaciones_significativas returned
  interpretacion,  \* the value interpretar_correlacion was given, and its answer
  correlacion,     \* what matriz_correlacion returned or raised
  analisis,        \* what analisis_correlacion_completo returned
  tipos,           \* the column detectar_tipos_columnas was given, and its answer
  cargador,        \* the CargadorDatos instance: its three attributes
  respuesta,       \* the last call on the loader: its arguments and outcome
  memoria,         \* the Python lists the validator and its results name
  validador,       \* the ValidadorDatos instance: its three attributes
  validaciones     \* the validar_dataframe calls so far: arguments and outcome

varsLimpieza == <<df, previo, llamada, salida, corrida>>

varsAnalisis == <<deteccion, matriz, significativas, interpretacion, correlacion,
                  analisis>>

varsCarga == <<tipos, cargador, respuesta>>

varsValidacion == <<memoria, validador, validaciones>>

vars == <<df, previo, llamada, salida, corrida, deteccion, matriz,
          significativas, interpretacion, correlacion, analisis, tipos, cargador,
          respuesta, memoria, validador, validaciones>>

ValoresA == {NaN, R(1), R(3)}

ValoresB == {None, "x", Lista}

\* a table with float64 column a and object column b and a RangeIndex
TablaAB(data) ==
  DataFrame(<<"a", "b">>, <<"float64", "object">>,
            [i \in 1..Len(data) |-> i - 1], data)

\* the tables of at most max rows with the cells of a in A and of b in B
TablasSobre(A, B, max) ==
  UNION {{TablaAB(data) : data \in [1..n -> {<<a, b>> : a \in A, b \in B}]} :
           n \in 0..max}

\* the tables a load can hand over
Tablas == TablasSobre(ValoresA, ValoresB, MaxFilas)

TablaVacia == DataFrame(<<>>, <<>>, <<>>, <<>>)

Estrategias ==
  {"eliminar", "media", "mediana", "moda", "forward_fill", "backward_fill"}

\* the method names of tratar_outliers and of normalizar_datos
MetodosOutliers == {"iqr_cap", "iqr_remove", "zscore_remove"}

MetodosNormalizar == {"minmax", "zscore", "robust"}

Configuraciones ==
  [eliminar_duplicados : BOOLEAN,
   tratar_nulos : {"eliminar", "media", "mediana", "moda", "ignorar"},
   tratar_outliers : BOOLEAN, normalizar : BOOLEAN,
   eliminar_columnas_vacias : BOOLEAN]

Llamada(fn, estrategia, columnas, mantener, metodo, config) ==
  [fn |-> fn, estrategia |-> estrategia, columnas |-> columnas,
   mantener |-> mantener, metodo |-> metodo, config |-> config]

SinLlamada == Llamada("", "", <<>>, "", "", ConfigDefault)

\* what the caller holds after a call that returned [heap, ref, exc] on a
\* heap whose object 1 is the caller's table
Salida(r, reporte, problemas, pasos) ==
  [hay |-> r.ref # 0,
   misma |-> r.ref = 1,
   tabla |-> IF r.ref = 0 THEN TablaVacia ELSE r.heap[r.ref],
   reporte |-> reporte, problemas |-> problemas, pasos |-> pasos,
   exc |-> r.exc]

SinSalida ==
  [hay |-> FALSE, misma |-> FALSE, tabla |-> TablaVacia, reporte |-> SinReporte,
   problemas |-> SinProblemas, pasos |-> <<>>, exc |-> SinExc]

\* CargadorDatos.__init__ (cargador_datos.py lines 29-31): no file, no table,
\* no metadata
CargadorNuevo == [ultimo_archivo |-> "None", ultimo_dataframe |-> "None",
                  metadatos |-> <<>>]

SinCarga ==
  /\ tipos = <<>>
  /\ cargador = CargadorNuevo
  /\ respuesta = <<>>
  /\ memoria = MemoriaNueva
  /\ validador = ValidadorNuevo
  /\ validaciones = <<>>

SinAnalisis ==
  /\ deteccion = <<>>
  /\ matriz = <<>>
  /\ significativas = <<>>
  /\ interpretacion = <<>>
  /\ correlacion = <<>>
  /\ analisis = <<>>
  /\ SinCarga

Init ==
  /\ df \in Tablas
  /\ previo = df
  /\ llamada = SinLlamada
  /\ salida = SinSalida
  /\ corrida = 0
  /\ SinAnalisis

\* the caller runs a function that returns r on the heap <<df>>
Retorna(r, reporte, problemas, pasos) ==
  /\ df' = r.heap[1]
  /\ previo' = df
  /\ salida' = Salida(r, reporte, problemas, pasos)
  /\ UNCHANGED <<varsAnalisis, varsCarga, varsValidacion>>

LlamarLimpiarNulos ==
  \E estrategia \in Estrategias \cup {"promedio"}, columnas \in {Todas, <<"a">>, <<"b">>} :
     /\ corrida = 0
     /\ \E r \in {limpiar_valores_nulos(<<df>>, 1, estrategia, columnas)} :
           Retorna(r, SinReporte, SinProblemas, <<>>)
     /\ llamada' = Llamada("limpiar_valores_nulos", estrategia, columnas, "", "",
                           ConfigDefault)
     /\ corrida' = 1

LlamarEliminarDuplicados ==
  \E mantener \in {"first", "last", Falso}, columnas \in {Todas, <<"a">>} :
     /\ corrida = 0
     /\ \E r \in {eliminar_duplicados(<<df>>, 1, columnas, mantener)} :
           Retorna(r, SinReporte, SinProblemas, <<>>)
     /\ llamada' = Llamada("eliminar_duplicados", "", columnas, mantener, "",
                           ConfigDefault)
     /\ corrida' = 1

LlamarTratarOutliers ==
  \E columna \in {"a", "b"}, metodo \in MetodosOutliers \cup {"winsor"} :
     /\ corrida = 0
     /\ \E r \in {tratar_outliers(<<df>>, 1, columna, metodo)} :
           Retorna(r, SinReporte, SinProblemas, <<>>)
     /\ llamada' = Llamada("tratar_outliers", "", <<columna>>, "", metodo,
                           ConfigDefault)
     /\ corrida' = 1

LlamarNormalizar ==
  \E columnas \in {Todas, <<"a">>}, metodo \in MetodosNormalizar \cup {"l2"} :
     /\ corrida = 0
     /\ \E r \in {normalizar_datos(<<df>>, 1, columnas, metodo)} :
           Retorna(r, SinReporte, SinProblemas, <<>>)
     /\ llamada' = Llamada("normalizar_datos", "", columnas, "", metodo,
                           ConfigDefault)
     /\ corrida' = 1

LlamarPipeline ==
  \E config \in Configuraciones :
     /\ corrida = 0
     /\ \E r \in {pipeline_limpieza_completa(<<df>>, 1, config)} :
           Retorna(r, r.reporte, r.problemas, r.pasos)
     /\ llamada' = Llamada("pipeline_limpieza_completa", "", Todas, "", "", config)
     /\ corrida' = 1

\* the caller runs the pipeline again, with the same configuration, on the
\* table the first run returned
RepetirPipeline ==
  /\ corrida = 1
  /\ llamada.fn = "pipeline_limpieza_completa"
  /\ salida.hay
  /\ \E r \in {pipeline_limpieza_completa(<<salida.tabla>>, 1, llamada.config)} :
        /\ df' = r.heap[1]
        /\ previo' = salida.tabla
        /\ salida' = Salida(r, r.reporte, r.problemas, r.pasos)
  /\ llamada' = llamada
  /\ corrida' = 2
  /\ UNCHANGED <<varsAnalisis, varsCarga, varsValidacion>>

LlamarDetectarOutliers ==
  \E columna \in {"a", "b", "c"}, metodo \in {"iqr", "zscore", "mad"} :
     /\ corrida = 0
     /\ deteccion = <<>>
     /\ \E r \in {detectar_outliers(df, columna, metodo)} :
           deteccion' = [columna |-> columna, metodo |-> metodo,
                         res |-> r.res, exc |-> r.exc]
     /\ corrida' = 1
     /\ UNCHANGED <<df, previo, llamada, salida, matriz, significativas, interpretacion, correlacion, analisis,
                  varsCarga, varsValidacion>>

Next ==
  \/ LlamarDetectarOutliers
  \/ LlamarLimpiarNulos
  \/ LlamarEliminarDuplicados
  \/ LlamarTratarOutliers
  \/ LlamarNormalizar
  \/ LlamarPipeline
  \/ RepetirPipeline

Spec == Init /\ [][Next]_vars

(***************************************************************************)
(* limpiar_valores_nulos alone, on longer tables of numbers and text.      *)
(***************************************************************************)
\* the column [1, missing, 3, missing, 5]
TablaEjemplo ==
  TablaAB(<<<<R(1), "x">>, <<NaN, "x">>, <<R(3), "x">>, <<NaN, "x">>,
            <<R(5), "x">>>>)

TablasNulos ==
  TablasSobre({NaN, R(1), R(3)}, {None, "x"}, MaxFilasNulos) \cup {TablaEjemplo}

InitNulos ==
  /\ df \in TablasNulos
  /\ previo = df
  /\ llamada = SinLlamada
  /\ salida = SinSalida
  /\ corrida = 0
  /\ SinAnalisis

NextNulos == LlamarLimpiarNulos

SpecNulos == InitNulos /\ [][NextNulos]_vars

(***************************************************************************)
(* detectar_outliers on one numeric column.                                *)
(***************************************************************************)
\* the series [1, 2, 3, 4, 5, 100]
TablaEjemploOutliers ==
  TablaAB(<<<<R(1), "x">>, <<R(2), "x">>, <<R(3), "x">>, <<R(4), "x">>,
            <<R(5), "x">>, <<R(100), "x">>>>)

TablasOutliers ==
  TablasSobre({NaN, R(0), R(2), R(5)}, {"x"}, MaxValores)
     \cup {TablaEjemploOutliers}

InitOutliers ==
  /\ df \in TablasOutliers
  /\ previo = df
  /\ llamada = SinLlamada
  /\ salida = SinSalida
  /\ corrida = 0
  /\ SinAnalisis

NextOutliers == LlamarDetectarOutliers

SpecOutliers == InitOutliers /\ [][NextOutliers]_vars

(***************************************************************************)
(* tratar_outliers on one column of the same tables, and once more on the  *)
(* table it returned.                                                      *)
(***************************************************************************)
\* the caller passes the table the first call returned to the same call
RepetirTratarOutliers ==
  /\ corrida = 1
  /\ llamada.fn = "tratar_outliers"
  /\ salida.hay
  /\ \E r \in {tratar_outliers(<<salida.tabla>>, 1, llamada.columnas[1],
                               llamada.metodo)} :
        /\ df' = r.heap[1]
        /\ previo' = salida.tabla
        /\ salida' = Salida(r, SinReporte, SinProblemas, <<>>)
  /\ llamada' = llamada
  /\ corrida' = 2
  /\ UNCHANGED <<varsAnalisis, varsCarga, varsValidacion>>

NextTratar == LlamarTratarOutliers \/ RepetirTratarOutliers

SpecTratar == InitOutliers /\ [][NextTratar]_vars

(***************************************************************************)
(* correlaciones_significativas on the matrix of a table.                  *)
(***************************************************************************)
ValoresCorr == {NaN, R(0), Rat(-3, 4), Rat(3, 4), Rat(19, 20)}

NombresColumnas == <<"a", "b", "c", "d", "e", "f">>

\* the pairs of the upper triangle
Pares(n) == {p \in (1..n) \X (1..n) : p[1] < p[2]}

\* the symmetric matrix with ones on the diagonal and u above it
Matriz(n, u) ==
  [i \in 1..n |-> [j \in 1..n |->
      IF i = j THEN R(1) ELSE IF i < j THEN u[<<i, j>>] ELSE u[<<j, i>>]]]

TablaCorr(n, hay_filas, corr) ==
  [columns |-> SubSeq(NombresColumnas, 1, n), hay_filas |-> hay_filas,
   corr |-> corr]

Umbrales == {R(0), Rat(3, 4), Rat(4, 5)}

InitCorr ==
  /\ df = TablaVacia
  /\ previo = TablaVacia
  /\ llamada = SinLlamada
  /\ salida = SinSalida
  /\ corrida = 0
  /\ deteccion = <<>>
  /\ \E n \in 0..MaxColumnas :
        \* a table without rows (every correlation undefined, no numeric
        \* column when n = 0), or a table with rows and numeric columns
        \/ matriz = TablaCorr(n, FALSE, [i \in 1..n |-> [j \in 1..n |-> NaN]])
        \/ /\ n >= 1
           /\ \E u \in [Pares(n) -> ValoresCorr] :
                 matriz = TablaCorr(n, TRUE, Matriz(n, u))
  /\ significativas = <<>>
  /\ interpretacion = <<>>
  /\ correlacion = <<>>
  /\ analisis = <<>>
  /\ SinCarga

\* the caller makes one call on its table
SinLlamadaCorr == significativas = <<>> /\ correlacion = <<>> /\ analisis = <<>>

LlamarMatriz ==
  \E metodo \in {"pearson", "kendall", "cosine"} :
     /\ SinLlamadaCorr
     /\ \E c \in {matriz_correlacion(matriz, metodo)} :
           correlacion' = [metodo |-> metodo, columns |-> c.columns, m |-> c.m,
                           exc |-> c.exc]
     /\ UNCHANGED <<varsLimpieza, deteccion, matriz, significativas, interpretacion,
                    analisis, varsCarga, varsValidacion>>

LlamarAnalisisCompleto ==
  \E umbral \in Umbrales :
     /\ SinLlamadaCorr
     /\ \E r \in {analisis_correlacion_completo(matriz, umbral)} :
           analisis' = [umbral |-> umbral, res |-> r]
     /\ UNCHANGED <<varsLimpieza, deteccion, matriz, significativas, interpretacion,
                    correlacion, varsCarga, varsValidacion>>

LlamarSignificativas ==
  \E umbral \in Umbrales, metodo \in {"pearson", "spearman", "cosine"} :
     /\ SinLlamadaCorr
     /\ \E r \in {correlaciones_significativas(matriz, umbral, metodo)} :
           significativas' = [umbral |-> umbral, metodo |-> metodo,
                              res |-> r.res, exc |-> r.exc]
     /\ UNCHANGED <<varsLimpieza, deteccion, matriz, interpretacion, correlacion, analisis,
                  varsCarga, varsValidacion>>

NextCorr == LlamarSignificativas \/ LlamarMatriz \/ LlamarAnalisisCompleto

SpecCorr == InitCorr /\ [][NextCorr]_vars

(***************************************************************************)
(* interpretar_correlacion on the correlations k/100, and on their         *)
(* opposites.                                                              *)
(***************************************************************************)
InitInterpretar ==
  /\ df = TablaVacia
  /\ previo = TablaVacia
  /\ llamada = SinLlamada
  /\ salida = SinSalida
  /\ corrida = 0
  /\ SinAnalisis

LlamarInterpretar ==
  \E k \in -100..100 :
     /\ interpretacion = <<>>
     /\ interpretacion' =
           [valor |-> Rat(k, 100),
            etiqueta |-> interpretar_correlacion(Rat(k, 100)),
            opuesto |-> interpretar_correlacion(RNeg(Rat(k, 100)))]
     /\ UNCHANGED <<varsLimpieza, deteccion, matriz, significativas, correlacion, analisis,
                  varsCarga, varsValidacion>>

NextInterpretar == LlamarInterpretar

SpecInterpretar == InitInterpretar /\ [][NextInterpretar]_vars

(***************************************************************************)
(* detectar_separador_csv on text files of up to two lines.                *)
(***************************************************************************)
Caracteres == {"a", ",", ";", Tab, "|"}

LineasCortas == UNION {[1..n -> Caracteres] : n \in 0..MaxLinea}

ArchivoTexto(existe, sufijo, lineas, chardet) ==
  [existe |-> existe, sufijo |-> sufijo, lineas |-> lineas, chardet |-> chardet]

\* a file that is not there, and files whose second line is absent, plain,
\* delimited or holds a byte that is not UTF-8
ArchivosCortos ==
  {ArchivoTexto(FALSE, ".csv", <<>>, "None")}
  \cup {ArchivoTexto(TRUE, ".csv", <<>>, "None")}
  \cup {ArchivoTexto(TRUE, ".csv", <<l1>> \o resto, "utf-8") :
          l1 \in LineasCortas,
          resto \in {<<>>, <<<<"a">>>>, <<<<"a", "|", "|">>>>, <<<<ByteE9, ";", ";">>>>}}

InitSeparador ==
  /\ df = TablaVacia
  /\ previo = TablaVacia
  /\ llamada = SinLlamada
  /\ salida = SinSalida
  /\ corrida = 0
  /\ SinAnalisis

LlamarDetectarSeparador ==
  \E archivo \in ArchivosCortos, encoding \in {"utf-8", "latin-1"} :
     /\ respuesta = <<>>
     /\ respuesta' = [op |-> "detectar_separador_csv", archivo |-> archivo,
                      encoding |-> encoding,
                      res |-> detectar_separador_csv(archivo, encoding)]
     /\ UNCHANGED <<varsLimpieza, varsAnalisis, tipos, cargador, varsValidacion>>

NextSeparador == LlamarDetectarSeparador

SpecSeparador == InitSeparador /\ [][NextSeparador]_vars

(***************************************************************************)
(* One CargadorDatos instance and the files of a directory: the caller     *)
(* loads and previews files, one call after the other.                     *)
(***************************************************************************)
Texto(sufijo, lineas, chardet) ==
  [existe |-> TRUE, sufijo |-> sufijo, lineas |-> lineas, chardet |-> chardet,
   tamano |-> Len(lineas), fecha |-> "t"]

Documento(valido, json) ==
  [existe |-> TRUE, sufijo |-> ".json", json_valido |-> valido, json |-> json,
   tamano |-> 1, fecha |-> "t"]

Binario(sufijo, legible, hojas, tablas) ==
  [existe |-> TRUE, sufijo |-> sufijo, legible |-> legible, hojas |-> hojas,
   tablas |-> tablas, tamano |-> 1, fecha |-> "t"]

Ausente(sufijo) ==
  [existe |-> FALSE, sufijo |-> sufijo, lineas |-> <<>>, chardet |-> "None",
   legible |-> FALSE, hojas |-> <<>>, tablas |-> <<>>, json_valido |-> FALSE,
   tamano |-> 0, fecha |-> "t"]

Registro(x, y) == JObjeto(<<"x", "y">>, <<JEscalar(x), JEscalar(y)>>)

TablaXY(n) ==
  TablaLeida(<<<<"x">>, <<"y">>>>, [k \in 1..n |-> <<<<"1">>, <<"2">>>>])

\* the directory: the path of each file and what it holds
Disco ==
  [coma_csv |-> Texto(".csv", <<<<"a", ",", "b">>, <<"1", ",", "2">>,
                                <<"3", ",", "4">>>>, "ascii"),
   latin_csv |-> Texto(".csv", <<<<"a", ";", "b">>, <<ByteE9, ";", "1">>>>, "None"),
   roto_csv |-> Texto(".csv", <<<<"a">>, <<"1">>, <<"2", ",", "3">>>>, "ascii"),
   tab_tsv |-> Texto(".tsv", <<<<"a", Tab, "b">>, <<"1", Tab, "2">>>>, "ascii"),
   coma_txt |-> Texto(".txt", <<<<"a", ",", "b">>, <<"1", ",", "2">>>>, "ascii"),
   filas_json |-> Documento(TRUE, JArreglo(<<Registro("1", "2"), Registro("3", "4"),
                                            Registro("5", "6")>>)),
   mal_json |-> Documento(FALSE, JEscalar("")),
   libro_xlsx |-> Binario(".xlsx", TRUE, <<"Hoja1", "Hoja2">>, <<TablaXY(4), TablaXY(1)>>),
   tabla_parquet |-> Binario(".parquet", TRUE, <<>>, <<TablaXY(2)>>),
   raro_dat |-> Texto(".dat", <<<<"a">>>>, "ascii"),
   nohay_csv |-> Ausente(".csv"),
   nohay_dat |-> Ausente(".dat")]

Rutas == DOMAIN Disco

\* the keyword arguments a caller passes
SinKwargs == <<>>

Kwargs == {SinKwargs, [encoding |-> "utf-8"], [sep |-> ";"], [sheet_name |-> "Hoja2"]}

\* the orders in which a reader can meet the two defects of a file
Ordenes(archivo) ==
  IF archivo.existe /\ "lineas" \in DOMAIN archivo
       /\ \E e \in {"utf-8"} : ~Decodifica(archivo, e)
       /\ \E sep \in {",", ";", Tab, "|"} : FilaSobrante(archivo, sep)
  THEN {"UnicodeDecodeError", "ParserError"}
  ELSE {"UnicodeDecodeError"}

Llamadas == IF respuesta = <<>> THEN 0 ELSE respuesta.llamadas

\* the metadata the most recent load that returned would leave in a loader
\* that had loaded nothing before
SinExitosa == [hay |-> FALSE, ruta |-> "", metadatos |-> <<>>]

Exitosa == IF respuesta = <<>> THEN SinExitosa ELSE respuesta.exitosa

ImpresionOk == IF respuesta = <<>> THEN TRUE ELSE respuesta.impresion_ok

\* the number of preview_archivo calls so far
Previews == IF respuesta = <<>> THEN 0 ELSE respuesta.previews

InitCarga ==
  /\ df = TablaVacia
  /\ previo = TablaVacia
  /\ llamada = SinLlamada
  /\ salida = SinSalida
  /\ corrida = 0
  /\ SinAnalisis

\* the caller's record of a cargar_archivo call that returned r
RespuestaCarga(disco, ruta, kwargs, primero, consola, r) ==
  [op |-> "cargar_archivo", ruta |-> ruta, archivo |-> disco[ruta], kwargs |-> kwargs,
   num_filas |-> 0, consola |-> consola, antes |-> cargador,
   exc |-> r.exc, hay |-> r.hay, df |-> r.df, intentos |-> r.intentos,
   res |-> VistaPrevia(SinTabla),
   llamadas |-> Llamadas + 1, previews |-> Previews,
   impresion_ok |-> ImpresionOk /\ PuedeImprimir(consola),
   exitosa |-> IF r.hay
               THEN [hay |-> TRUE, ruta |-> ruta,
                     metadatos |->
                       cargar_archivo(CargadorNuevo, disco, ruta, kwargs,
                                      primero, consola).self.metadatos]
               ELSE Exitosa]

LlamarCargarArchivo ==
  /\ Llamadas < MaxLlamadas
  /\ \E ruta \in Rutas, kwargs \in Kwargs, consola \in {"utf-8", "cp1252"} :
       \E primero \in Ordenes(Disco[ruta]) :
         \E r \in {cargar_archivo(cargador, Disco, ruta, kwargs, primero, consola)} :
           /\ cargador' = r.self
           /\ respuesta' = RespuestaCarga(Disco, ruta, kwargs, primero, consola, r)
  /\ UNCHANGED <<varsLimpieza, varsAnalisis, tipos, varsValidacion>>

LlamarPreview ==
  /\ Llamadas < MaxLlamadas
  /\ \E ruta \in Rutas, num_filas \in {1, 2}, consola \in {"utf-8", "cp1252"} :
       \E primero \in Ordenes(Disco[ruta]) :
         \E r \in {preview_archivo(cargador, Disco, ruta, num_filas, primero, consola)} :
           /\ cargador' = r.self
           /\ respuesta' =
                 [op |-> "preview_archivo", ruta |-> ruta, archivo |-> Disco[ruta],
                  kwargs |-> SinKwargs,
                  num_filas |-> num_filas, consola |-> consola, antes |-> cargador,
                  exc |-> r.exc, hay |-> FALSE, df |-> SinTabla, intentos |-> <<>>,
                  res |-> r.res,
                  llamadas |-> Llamadas + 1, previews |-> Previews + 1,
                  impresion_ok |-> ImpresionOk /\ PuedeImprimir(consola),
                  exitosa |-> Exitosa]
  /\ UNCHANGED <<varsLimpieza, varsAnalisis, tipos, varsValidacion>>

NextCarga == LlamarCargarArchivo \/ LlamarPreview

SpecCarga == InitCarga /\ [][NextCarga]_vars

(***************************************************************************)
(* One load of a delimited text file by a new loader.                      *)
(***************************************************************************)
Encabezados == {<<"a">>, <<"a", ";", "b">>, <<"a", ",", "b">>}

SegundasLineas == {<<"1">>, <<ByteE9, ";", "1">>, <<"1", ",", "2">>}

Restos == {<<>>, <<<<"2", ",", "3">>>>, <<<<ByteE9>>>>}

ArchivosDelimitados ==
  {Texto(sufijo, <<l1, l2>> \o resto, chardet) :
     sufijo \in {".csv", ".tsv", ".txt", ".TXT"}, l1 \in Encabezados,
     l2 \in SegundasLineas,
     resto \in Restos, chardet \in {"ascii", "None", "ISO-8859-1", "Windows-1252"}}

KwargsTexto ==
  {SinKwargs, [encoding |-> "utf-8"], [encoding |-> "latin-1"], [sep |-> ";"],
   [sep |-> ","], [encoding |-> "utf-8", sep |-> ";"]}

LlamarCargarTexto ==
  /\ respuesta = <<>>
  /\ \E archivo \in ArchivosDelimitados, kwargs \in KwargsTexto :
       \E primero \in Ordenes(archivo) :
         \E r \in {cargar_archivo(cargador, [ruta \in {"archivo"} |-> archivo],
                                  "archivo", kwargs, primero, "utf-8")} :
           /\ cargador' = r.self
           /\ respuesta' = RespuestaCarga([ruta \in {"archivo"} |-> archivo],
                                          "archivo", kwargs, primero, "utf-8", r)
  /\ UNCHANGED <<varsLimpieza, varsAnalisis, tipos, varsValidacion>>

NextTexto == LlamarCargarTexto

SpecTexto == InitCarga /\ [][NextTexto]_vars

(***************************************************************************)
(* One load of a JSON document by a new loader.                            *)
(***************************************************************************)
ValoresJSON ==
  {JEscalar("5"), JArreglo(<<JEscalar("1")>>),
   JArreglo(<<JEscalar("1"), JEscalar("2")>>),
   JArreglo(<<Registro("1", "2"), Registro("3", "4")>>)}

ClavesJSON == {<<>>, <<"x">>, <<"x", "y">>, <<"data">>, <<"data", "x">>}

DocumentosJSON ==
  {Documento(FALSE, JEscalar(""))}
  \cup {Documento(TRUE, v) : v \in ValoresJSON \cup {JArreglo(<<>>)}}
  \cup UNION {{Documento(TRUE, JObjeto(claves, valores)) :
                 valores \in [1..Len(claves) -> ValoresJSON]} : claves \in ClavesJSON}

LlamarCargarJSON ==
  /\ respuesta = <<>>
  /\ \E archivo \in DocumentosJSON, kwargs \in {SinKwargs, [encoding |-> "latin-1"]},
        consola \in {"utf-8", "cp1252"} :
         \E r \in {cargar_archivo(cargador, [ruta \in {"archivo"} |-> archivo],
                                  "archivo", kwargs, "UnicodeDecodeError", consola)} :
           /\ cargador' = r.self
           /\ respuesta' = RespuestaCarga([ruta \in {"archivo"} |-> archivo],
                                          "archivo", kwargs, "UnicodeDecodeError",
                                          consola, r)
  /\ UNCHANGED <<varsLimpieza, varsAnalisis, tipos, varsValidacion>>

NextJSON == LlamarCargarJSON

SpecJSON == InitCarga /\ [][NextJSON]_vars

(***************************************************************************)
(* One call of detectar_tipos_columnas on a table of one or two columns.   *)
(***************************************************************************)
Celdas ==
  {Celda("entero", "1"), Celda("decimal", "1.5"), Celda("fecha", "2020-01-01"),
   Celda("texto", "A"), Celda("texto", "B"), Celda("nulo", "None")}

\* a column holds numbers or strings: no column mixes numbers with dates
Homogenea(columna) ==
  ~ /\ \E k \in 1..Len(columna) : columna[k].clase \in {"entero", "decimal"}
    /\ \E k \in 1..Len(columna) : columna[k].clase = "fecha"

LlamarDetectarTipos ==
  /\ tipos = <<>>
  /\ \E n \in 1..MaxCeldas, otra \in {<<>>} \cup {<<c>> : c \in Celdas} :
       \E columna \in [1..n -> Celdas] :
         /\ Homogenea(columna)
         /\ \E t \in {[columnas |-> IF otra = <<>> THEN <<"c">> ELSE <<"c", "d">>,
                       datos |-> IF otra = <<>> THEN <<columna>>
                                 ELSE <<columna, [k \in 1..n |-> otra[1]]>>]} :
              tipos' = [op |-> "detectar_tipos_columnas", df |-> t,
                        res |-> detectar_tipos_columnas(t)]
  /\ UNCHANGED <<varsLimpieza, varsAnalisis, cargador, respuesta, varsValidacion>>

\* text columns of numbers, other strings and missing cells, alone or beside
\* a column of integers or of floats
CeldasTexto ==
  {Celda("entero", "1"), Celda("decimal", "1.5"), Celda("texto", "A"),
   Celda("nulo", "None")}

LlamarOptimizarTipos ==
  /\ tipos = <<>>
  /\ \E n \in 1..MaxCeldasTexto, otra \in {"", "int64", "float64"} :
       \E columna \in [1..n -> CeldasTexto] :
         \E t \in {[columnas |-> IF otra = "" THEN <<"c">> ELSE <<"c", "d">>,
                     dtypes |-> IF otra = "" THEN <<"object">> ELSE <<"object", otra>>,
                     datos |-> IF otra = "" THEN <<columna>>
                               ELSE <<columna,
                                      [k \in 1..n |->
                                         IF otra = "int64" THEN Celda("entero", "1")
                                         ELSE Celda("decimal", "1.5")]>>]} :
            tipos' = [op |-> "optimizar_tipos_datos", df |-> t,
                      res |-> optimizar_tipos_datos(t)]
  /\ UNCHANGED <<varsLimpieza, varsAnalisis, cargador, respuesta, varsValidacion>>

NextTipos == LlamarDetectarTipos \/ LlamarOptimizarTipos

SpecTipos == InitCarga /\ [][NextTipos]_vars

(***************************************************************************)
(* One ValidadorDatos instance and up to MaxLlamadas calls of              *)
(* validar_dataframe on it, each with its own table and rules.             *)
(***************************************************************************)
TablaDeCeldas(columnas, dtypes, datos) ==
  [columnas |-> columnas, dtypes |-> dtypes, datos |-> datos,
   filas |-> IF datos = <<>> THEN 0 ELSE Len(datos[1])]

\* text columns: no rows, numbers as text, distinct strings, one string
\* twice, a date beside a missing cell, mostly missing, only missing cells
ColumnasDeTexto ==
  {<<>>,
   <<Celda("entero", "1"), Celda("decimal", "1.5")>>,
   <<Celda("texto", "A"), Celda("texto", "1,5")>>,
   <<Celda("texto", "A"), Celda("texto", "A")>>,
   <<Celda("fecha", "2020-01-01"), Celda("nulo", "None")>>,
   <<Celda("nulo", "None"), Celda("texto", "A"), Celda("nulo", "None")>>,
   <<Celda("nulo", "None"), Celda("nulo", "None")>>}

\* a column of floats for a table of two rows
ColumnasDeNumeros ==
  {<<Celda("entero", "1"), Celda("entero", "7")>>,
   <<Celda("decimal", "1.5"), Celda("nulo", "NaN")>>}

\* pd.DataFrame(), a text column under a plain or an awkward name, a text
\* column beside a column of floats, and two columns under one name
TablasDeValidacion ==
  {TablaDeCeldas(<<>>, <<>>, <<>>)}
  \cup {TablaDeCeldas(<<nombre>>, <<"object">>, <<c>>) :
          nombre \in {<<"c">>, <<" ", "c", "/">>}, c \in ColumnasDeTexto}
  \cup {TablaDeCeldas(<<<<"c">>, <<"n">>>>, <<"object", "float64">>, <<c, n>>) :
          c \in {<<Celda("texto", "A"), Celda("texto", "A")>>,
                 <<Celda("fecha", "2020-01-01"), Celda("nulo", "None")>>},
          n \in ColumnasDeNumeros}
  \cup {TablaDeCeldas(<<<<"c">>, <<"c">>>>, <<"object", "object">>, <<c, c>>) :
          c \in {<<Celda("texto", "A"), Celda("texto", "A")>>}}

\* the reglas argument: None, or a dictionary of one or two rules on the
\* columns of the table
ReglasDeValidacion(t) ==
  IF Len(t.columnas) = 2 /\ t.columnas[1] # t.columnas[2]
  THEN {<<>>,
        <<<<"rango", [tipo |-> "rango_numerico", columna |-> <<"n">>,
                      min |-> Rat(3, 2), max |-> R(5)]>>>>}
  ELSE IF t.columnas # <<<<"c">>>> \/ t.filas # 2 THEN {<<>>}
  ELSE
  {<<>>,
   <<<<"rango", [tipo |-> "rango_numerico", columna |-> <<"c">>, max |-> R(1)]>>,
     <<"otra", [columna |-> <<"c">>]>>>>,
   <<<<"permitidos", [tipo |-> "valores_permitidos", columna |-> <<"c">>,
                      valores |-> {"A"}]>>>>,
   <<<<"patron", [tipo |-> "patron_regex", columna |-> <<"c">>,
                  patron |-> "[0-9]"]>>>>,
   <<<<"patron", [tipo |-> "patron_regex", columna |-> <<"c">>, patron |-> "("]>>,
     <<"limite", [tipo |-> "limite", columna |-> <<"c">>]>>>>}

\* the lists a result names, as they are in memory m
Contenido(m, resultado) ==
  [valido |-> resultado.valido, errores |-> m[resultado.errores],
   advertencias |-> m[resultado.advertencias], metricas |-> resultado.metricas]

SinContenido == [valido |-> FALSE, errores |-> <<>>, advertencias |-> <<>>,
                 metricas |-> <<>>]

\* the caller's record of a call that ended as r: the arguments, the result
\* and what the result held when it was returned
Validacion(t, reglas, r) ==
  [df |-> t, reglas |-> reglas, hay |-> r.hay, resultado |-> r.resultado,
   exc |-> r.exc,
   visto |-> IF r.hay THEN Contenido(r.m, r.resultado) ELSE SinContenido]

LlamarValidarDataframe ==
  /\ Len(validaciones) < MaxLlamadas
  /\ \E t \in TablasDeValidacion :
       \E reglas \in ReglasDeValidacion(t) :
         \E r \in {validar_dataframe(memoria, validador, t, reglas)} :
           /\ memoria' = r.m
           /\ validador' = r.self
           /\ validaciones' = Append(validaciones, Validacion(t, reglas, r))
  /\ UNCHANGED <<varsLimpieza, varsAnalisis, varsCarga>>

NextValidador == LlamarValidarDataframe

SpecValidador == InitCarga /\ [][NextValidador]_vars


(***************************************************************************)
(* Properties of the cleaning functions.                                   *)
(***************************************************************************)
EsPipeline == llamada.fn = "pipeline_limpieza_completa"

Acciones == salida.reporte.acciones_realizadas

TieneDuplicados(t) ==
  \E i, j \in 1..NFilas(t) : i < j /\ t.data[i] = t.data[j]

\* C1: with duplicate removal enabled, a second pipeline run on the table
\* the first run returned, with the same configuration, reports no action;
\* and the first run reports at least one when the table had duplicate rows.
C1_SegundaCorridaSinAcciones ==
  (EsPipeline /\ salida.hay /\ llamada.config.eliminar_duplicados) =>
     /\ corrida = 2 => Acciones = <<>>
     /\ (corrida = 1 /\ TieneDuplicados(previo)) => Acciones # <<>>

\* C2: every action the pipeline reports belongs to a step that changed the
\* table: a step that left the table as it was adds no entry.
C2_AccionSoloSiCambio ==
  (EsPipeline /\ salida.hay) =>
     /\ Len(Acciones) = Len(salida.pasos)
     /\ \A k \in 1..Len(Acciones) : salida.pasos[k].cambio

\* C3: no cleaning function changes the table it is given, and the table it
\* returns is another object.
C3_EntradaIntacta ==
  corrida >= 1 => (df = previo /\ ~salida.misma)

\* a fill wrote into the copy: the returned table differs from the input
C3_Testigo ==
  /\ corrida = 1
  /\ llamada.fn = "limpiar_valores_nulos"
  /\ llamada.estrategia = "media"
  /\ salida.hay
  /\ salida.tabla # previo

\* the steps a configuration enables, in the fixed order: empty columns,
\* duplicates, nulls, outliers, normalization
PasosHabilitados(config, problemas) ==
  (IF config.eliminar_columnas_vacias /\ problemas.columnas_vacias # <<>>
   THEN <<"columnas_vacias">> ELSE <<>>)
  \o (IF config.eliminar_duplicados /\ problemas.duplicados > 0
      THEN <<"duplicados">> ELSE <<>>)
  \o (IF config.tratar_nulos # "ignorar" THEN <<"nulos">> ELSE <<>>)
  \o (IF config.tratar_outliers THEN <<"outliers">> ELSE <<>>)
  \o (IF config.normalizar THEN <<"normalizar">> ELSE <<>>)

\* C4: the steps the pipeline applies are exactly the enabled steps in the
\* fixed order; with outlier treatment enabled the outlier step runs after
\* the null treatment and before the normalization.
C4_PasosHabilitadosEnOrden ==
  (EsPipeline /\ salida.hay) =>
     [k \in 1..Len(salida.pasos) |-> salida.pasos[k].paso]
        = PasosHabilitados(llamada.config, salida.problemas)

\* the pipeline step an error message names ("" when it names none): the
\* sklearn messages name the scaler of the normalization step
PasoQueNombra(e) ==
  IF e.mensaje \in {"Found array with 0 sample(s) while a minimum of 1 is required by MinMaxScaler",
                    "Found array with 0 feature(s) while a minimum of 1 is required by MinMaxScaler"}
  THEN "normalizar" ELSE ""

\* C5: when a step of the pipeline raises, no result is returned and the
\* error the caller gets identifies the step that failed.
C5_ErrorIdentificaPaso ==
  (EsPipeline /\ Falla(salida.exc)) =>
     (~salida.hay /\ PasoQueNombra(salida.exc) # "")

(***************************************************************************)
(* Properties of limpiar_valores_nulos (under SpecNulos).                  *)
(***************************************************************************)
EsLimpiar(estrategia) ==
  /\ corrida = 1
  /\ llamada.fn = "limpiar_valores_nulos"
  /\ llamada.estrategia = estrategia

\* the columns of the table the call was asked to treat
ColumnasObjetivo ==
  IF llamada.columnas = Todas THEN previo.columns
  ELSE Elegir(llamada.columnas,
              Posiciones([k \in 1..Len(llamada.columnas) |->
                            EnColumnas(previo, llamada.columnas[k])]))

\* C6: strategy 'media' returns as many rows as it was given and, in every
\* numeric target column with a value, each missing cell holds the mean of
\* the column's values (mean * count = sum), no cell is missing, and each
\* cell that had a value keeps it.
C6_MediaRellenaNulos ==
  EsLimpiar("media") =>
     /\ salida.hay
     /\ NFilas(salida.tabla) = NFilas(previo)
     /\ \A k \in 1..Len(ColumnasObjetivo) :
          LET c == ColumnasObjetivo[k]
              vals == SinNulos(previo, c)
              antes == Serie(previo, c)
              ahora == Serie(salida.tabla, c)
          IN  (EsNumerica(previo, c) /\ vals # <<>>) =>
                 \A i \in 1..NFilas(previo) :
                    /\ ~IsNaN(ahora[i])
                    /\ IF IsNaN(antes[i])
                       THEN RMul(ahora[i], R(Len(vals))) = SumSeq(vals)
                       ELSE ahora[i] = antes[i]

\* [1, missing, 3, missing, 5] became [1, 3, 3, 3, 5]
C6_Testigo ==
  /\ EsLimpiar("media")
  /\ previo = TablaEjemplo
  /\ Serie(salida.tabla, "a") = <<R(1), R(3), R(3), R(3), R(5)>>

\* row i of the input has a value in every target column
FilaCompleta(i) ==
  \A k \in 1..Len(ColumnasObjetivo) :
     ~MascaraNulos(previo, ColumnasObjetivo[k])[i]

\* C7: strategy 'eliminar' returns exactly the rows of the input that have
\* no missing value in any target column, in their order and unchanged.
C7_EliminarQuitaFilasConNulos ==
  EsLimpiar("eliminar") =>
     /\ salida.hay
     /\ salida.tabla.columns = previo.columns
     /\ salida.tabla.data =
          Filtrar(previo.data, [i \in 1..NFilas(previo) |-> FilaCompleta(i)])
     /\ salida.tabla.index =
          Filtrar(previo.index, [i \in 1..NFilas(previo) |-> FilaCompleta(i)])

\* [1, missing, 3, missing, 5] left exactly 3 rows
C7_Testigo ==
  /\ EsLimpiar("eliminar")
  /\ previo = TablaEjemplo
  /\ NFilas(salida.tabla) = 3

(***************************************************************************)
(* Properties of detectar_outliers (under SpecOutliers).                   *)
(***************************************************************************)
DetectoIQR ==
  /\ deteccion # <<>>
  /\ deteccion.columna = "a"
  /\ deteccion.metodo = "iqr"
  /\ ~Falla(deteccion.exc)

Devolvio ==
  /\ significativas # <<>>
  /\ ~Falla(significativas.exc)

\* the position of an entry's pair in the upper triangle, row by row
Lugar(e) ==
  Posicion(matriz.columns, e.col1) * (Len(matriz.columns) + 1)
    + Posicion(matriz.columns, e.col2)

Califica(i, j) ==
  /\ ~IsNaN(matriz.corr[i][j])
  /\ Abs(matriz.corr[i][j][1]) * significativas.umbral[2]
       >= significativas.umbral[1] * matriz.corr[i][j][2]

\* C9: the list returned holds exactly the pairs of columns i < j whose
\* correlation is not NaN and is at least the threshold in absolute value,
\* each once and with its value; it is sorted by descending absolute value
\* and entries of equal absolute value stand in matrix order.
C9_ParesSignificativos ==
  Devolvio =>
     LET res == significativas.res
         n == Len(matriz.columns)
     IN  /\ \A k \in 1..Len(res) :
               \E i \in 1..n, j \in 1..n :
                  /\ i < j
                  /\ Califica(i, j)
                  /\ res[k] = [col1 |-> matriz.columns[i], col2 |-> matriz.columns[j],
                               valor |-> matriz.corr[i][j]]
         /\ \A i \in 1..n, j \in 1..n :
               (i < j /\ Califica(i, j)) =>
                  Cardinality({k \in 1..Len(res) :
                     res[k].col1 = matriz.columns[i]
                       /\ res[k].col2 = matriz.columns[j]}) = 1
         /\ \A k \in 1..Len(res), l \in 1..Len(res) :
               k < l =>
                  /\ ~RLt(RAbs(res[k].valor), RAbs(res[l].valor))
                  /\ RAbs(res[k].valor) = RAbs(res[l].valor) =>
                       Lugar(res[k]) < Lugar(res[l])

\* the strongest pair is the last of the matrix and is returned first; the
\* two behind it have the same absolute value, opposite signs, and stand in
\* matrix order
C9_Testigo ==
  /\ Devolvio
  /\ Len(significativas.res) = 3
  /\ Lugar(significativas.res[1]) > Lugar(significativas.res[3])
  /\ significativas.res[2].valor = RNeg(significativas.res[3].valor)
  /\ significativas.res[2].valor # significativas.res[3].valor

(***************************************************************************)
(* Properties of interpretar_correlacion (under SpecInterpretar).          *)
(***************************************************************************)
Interpreto == interpretacion # <<>>

\* the label the thresholds 0.9, 0.7, 0.5, 0.3 give to the value n/d
IntensidadEsperada(valor) ==
  IF 10 * Abs(valor[1]) >= 9 * valor[2] THEN "muy fuerte"
  ELSE IF 10 * Abs(valor[1]) >= 7 * valor[2] THEN "fuerte"
  ELSE IF 10 * Abs(valor[1]) >= 5 * valor[2] THEN "moderada"
  ELSE IF 10 * Abs(valor[1]) >= 3 * valor[2] THEN "debil"
  ELSE "muy debil"

\* C10 as stated: the strength follows the inclusive thresholds, the
\* direction is 'positiva' for v > 0 and 'negativa' for v < 0, and v and -v
\* always get the same strength and opposite directions.
C10_SiempreOpuestas ==
  Interpreto =>
     /\ interpretacion.etiqueta.intensidad = IntensidadEsperada(interpretacion.valor)
     /\ interpretacion.valor[1] > 0 => interpretacion.etiqueta.direccion = "positiva"
     /\ interpretacion.valor[1] < 0 => interpretacion.etiqueta.direccion = "negativa"
     /\ interpretacion.opuesto.intensidad = interpretacion.etiqueta.intensidad
     /\ interpretacion.opuesto.direccion # interpretacion.etiqueta.direccion

\* C10: the strength follows the inclusive thresholds; the direction is
\* 'positiva' for v > 0 and 'negativa' otherwise, 0 included; v and -v get
\* the same strength, and opposite directions exactly when v is not 0.
C10_UmbralesYDireccion ==
  Interpreto =>
     /\ interpretacion.etiqueta.intensidad = IntensidadEsperada(interpretacion.valor)
     /\ interpretacion.etiqueta.direccion = "positiva" <=> interpretacion.valor[1] > 0
     /\ interpretacion.etiqueta.direccion = "negativa" <=> interpretacion.valor[1] <= 0
     /\ interpretacion.opuesto.intensidad = interpretacion.etiqueta.intensidad
     /\ interpretacion.opuesto.direccion # interpretacion.etiqueta.direccion
          <=> interpretacion.valor[1] # 0

\* the value 0 and its opposite are both 'negativa muy debil'
C10_Testigo ==
  /\ Interpreto
  /\ interpretacion.valor = R(0)
  /\ interpretacion.etiqueta = [intensidad |-> "muy debil", direccion |-> "negativa"]
  /\ interpretacion.opuesto = interpretacion.etiqueta

(***************************************************************************)
(* Properties of analisis_correlacion_completo and matriz_correlacion      *)
(* (under SpecCorr).                                                       *)
(***************************************************************************)
Analizo == analisis # <<>>

\* the table has no numeric column, or no row: no matrix can be computed
SinMatriz == matriz.columns = <<>> \/ ~matriz.hay_filas

\* C11: analisis_correlacion_completo always returns a dictionary; when the
\* analysis cannot be computed it carries 'error', matriz_correlacion is
\* None and correlaciones_significativas, estadisticas_generales and
\* recomendaciones are empty; without 'error' it carries the matrix of the
\* table, the significant pairs and the aggregate statistics.
C11_ReporteNuncaFalla ==
  Analizo =>
     LET r == analisis.res
     IN  /\ {"matriz_correlacion", "correlaciones_significativas",
             "estadisticas_generales", "recomendaciones"} \subseteq r.claves
         /\ SinMatriz <=> "error" \in r.claves
         /\ "error" \in r.claves =>
              /\ r.error # <<>>
              /\ r.matriz_correlacion.es_none
              /\ r.correlaciones_significativas = <<>>
              /\ DOMAIN r.estadisticas_generales = {}
              /\ r.recomendaciones = <<>>
         /\ "error" \notin r.claves =>
              /\ ~r.matriz_correlacion.es_none
              /\ r.matriz_correlacion.columns = matriz.columns
              /\ r.matriz_correlacion.m = matriz.corr
              /\ DOMAIN r.estadisticas_generales =
                   {"correlacion_promedio", "correlacion_maxima", "correlacion_minima",
                    "total_pares_variables", "pares_significativos"}
              /\ r.estadisticas_generales.pares_significativos =
                   Len(r.correlaciones_significativas)
              /\ r.estadisticas_generales.total_pares_variables =
                   Cardinality({p \in Pares(Len(matriz.columns)) :
                                  ~IsNaN(matriz.corr[p[1]][p[2]])})
              /\ \A k \in 1..Len(r.correlaciones_significativas) :
                    \E p \in Pares(Len(matriz.columns)) :
                       /\ r.correlaciones_significativas[k].variables =
                            <<matriz.columns[p[1]], matriz.columns[p[2]]>>
                       /\ r.correlaciones_significativas[k].correlacion =
                            matriz.corr[p[1]][p[2]]

\* a table without numeric columns got the error dictionary
C11_Testigo ==
  /\ Analizo
  /\ matriz.columns = <<>>
  /\ "error" \in analisis.res.claves
  /\ analisis.res.matriz_correlacion.es_none

\* C12: matriz_correlacion returns a matrix only for a table with at least
\* two numeric columns, and fails for a table with none or exactly one.
C12_AlMenosDosColumnas ==
  correlacion # <<>> =>
     (Len(matriz.columns) < 2 => Falla(correlacion.exc))

(***************************************************************************)
(* Properties of detectar_separador_csv (under SpecSeparador).             *)
(***************************************************************************)
DetectoSeparador ==
  /\ respuesta # <<>>
  /\ respuesta.op = "detectar_separador_csv"

\* the candidate with the highest count in the line, the earliest of them,
\* or the comma when no candidate occurs
SeparadorDe(linea) ==
  IF \A k \in 1..Len(linea) : linea[k] \notin {",", ";", Tab, "|"} THEN ","
  ELSE CHOOSE c \in {",", ";", Tab, "|"} :
         /\ Contar(linea, c) > 0
         /\ \A d \in {",", ";", Tab, "|"} : Contar(linea, d) <= Contar(linea, c)
         /\ \A d \in {",", ";", Tab, "|"} :
               (Contar(linea, d) = Contar(linea, c) /\ d # c) =>
                  Posicion(SeparadoresComunes, c) < Posicion(SeparadoresComunes, d)

\* C13: the delimiter returned is the candidate most frequent in the first
\* line (the earliest candidate on a tie), the comma when none occurs or
\* when the file is not there; the lines after the first have no influence.
C13_SoloPrimeraLinea ==
  DetectoSeparador =>
     respuesta.res =
        IF ~respuesta.archivo.existe
             \/ ~PrimeraLineaDecodifica(respuesta.archivo, respuesta.encoding)
        THEN ","
        ELSE SeparadorDe(PrimeraLinea(respuesta.archivo))

(***************************************************************************)
(* Properties of the loader (under SpecTexto, SpecJSON and SpecCarga).     *)
(***************************************************************************)
Cargo ==
  /\ respuesta # <<>>
  /\ respuesta.op = "cargar_archivo"

\* the first read of the text file failed on a byte the codec rejects
PrimerIntentoNoDecodifica ==
  /\ Cargo
  /\ respuesta.intentos # <<>>
  /\ respuesta.intentos[1].exc = "UnicodeDecodeError"

\* C14: after a first read that fails with a decode error the loader reads
\* again with latin-1, then cp1252, then iso-8859-1, stopping at the first
\* read that succeeds; it returns the table of that read and
\* encoding_detectado is that encoding; when the three reads fail the call
\* fails with ValueError.
C14_ReintentosEnOrden ==
  PrimerIntentoNoDecodifica =>
     LET re == Tail(respuesta.intentos)
         orden == <<"latin-1", "cp1252", "iso-8859-1">>
     IN  /\ Len(re) \in 1..3
         /\ \A k \in 1..Len(re) : re[k].encoding = orden[k]
         /\ \A k \in 1..(Len(re) - 1) : re[k].exc # ""
         /\ \E sep \in {",", ";", Tab, "|"} :
               \A k \in 1..Len(re) :
                  LET r == read_csv(respuesta.archivo, orden[k], sep, "ParserError")
                  IN  /\ re[k].exc = "" <=> ~Falla(r.exc)
                      /\ re[k].exc = "" => respuesta.df = r.df
         /\ re[Len(re)].exc = "" =>
              /\ respuesta.hay
              /\ ~Falla(respuesta.exc)
              /\ cargador.metadatos.encoding_detectado = re[Len(re)].encoding
              /\ cargador.ultimo_dataframe = respuesta.df
         /\ re[Len(re)].exc # "" =>
              /\ Len(re) = 3
              /\ ~respuesta.hay
              /\ Falla(respuesta.exc)
              /\ respuesta.exc.tipo = "ValueError"

\* a file with a latin-1 letter, first read as UTF-8, came back from the
\* read with latin-1
C14_Testigo ==
  /\ PrimerIntentoNoDecodifica
  /\ Len(respuesta.intentos) = 2
  /\ respuesta.intentos[2] = [encoding |-> "latin-1", exc |-> ""]
  /\ respuesta.hay
  /\ cargador.metadatos.encoding_detectado = "latin-1"

\* C15: a cargar_archivo call that fails raises FileNotFoundError for a
\* path that is not there (whatever its extension), ValueError for an
\* extension that is not supported and for a loader that failed, returns no
\* table, and leaves ultimo_archivo, ultimo_dataframe and metadatos as they
\* were before the call.
C15_FalloNoCompromete ==
  (Cargo /\ Falla(respuesta.exc)) =>
     /\ ~respuesta.hay
     /\ respuesta.exc.tipo =
          IF ~respuesta.archivo.existe THEN "FileNotFoundError" ELSE "ValueError"
     /\ cargador = respuesta.antes

\* a JSON document with an array or an object at the top was loaded on a
\* stdout that can print
CargoJSON ==
  /\ Cargo
  /\ respuesta.archivo.sufijo = ".json"
  /\ respuesta.archivo.json_valido
  /\ respuesta.archivo.json.clase \in {"arreglo", "objeto"}
  /\ respuesta.consola = "utf-8"

\* the list values of an object all have one length
ListasDeUnLargo(v) ==
  /\ \A k \in 1..Len(v.valores) : v.valores[k].clase = "arreglo"
  /\ \A j \in 1..Len(v.valores), k \in 1..Len(v.valores) :
        Len(v.valores[j].elementos) = Len(v.valores[k].elementos)

\* the number of rows the shape rules give to a document
FilasEsperadas(v) ==
  IF v.clase = "arreglo" THEN Len(v.elementos)
  ELSE IF Contiene(v.claves, "data") /\ ValorDe(v, "data").clase = "arreglo"
  THEN Len(ValorDe(v, "data").elementos)
  ELSE IF ListasDeUnLargo(v)
  THEN (IF v.valores = <<>> THEN 0 ELSE Len(v.valores[1].elementos))
  ELSE 1

\* C16: a top-level array is loaded as rows; else an object with a 'data'
\* key holding an array is loaded from that array; else an object whose
\* values are all arrays of one length is loaded column-wise; any other
\* object is loaded as a single row, and none of them fails.
C16_FormaJSON ==
  CargoJSON =>
     /\ respuesta.hay
     /\ ~Falla(respuesta.exc)
     /\ Len(respuesta.df.filas) = FilasEsperadas(respuesta.archivo.json)

\* detectar_tipos_columnas was called
DetectoTipos == tipos # <<>> /\ tipos.op = "detectar_tipos_columnas"

\* the cells of a column of the table that are not missing
Presentes(col) ==
  LET columna == tipos.df.datos[Posicion(tipos.df.columnas, col)] IN
  {columna[k] : k \in {j \in 1..Len(columna) : columna[j].clase # "nulo"}}

NumPresentes(col) ==
  LET columna == tipos.df.datos[Posicion(tipos.df.columnas, col)] IN
  Cardinality({j \in 1..Len(columna) : columna[j].clase # "nulo"})

\* the type the documented order of tests gives to a column
TipoEsperado(col) ==
  IF Presentes(col) = {} THEN "object"
  ELSE IF \A c \in Presentes(col) : c.clase = "entero" THEN "int64"
  ELSE IF \A c \in Presentes(col) : c.clase \in {"entero", "decimal"} THEN "float64"
  ELSE IF \A c \in Presentes(col) : c.clase = "fecha" THEN "datetime64[ns]"
  ELSE IF 2 * Cardinality(Presentes(col)) < NumPresentes(col)
          /\ Cardinality(Presentes(col)) < 50 THEN "category"
  ELSE "object"

\* C17: each column gets the first type that fits its non-missing values:
\* integer, float, datetime, categorical (distinct/count below 0.5 and fewer
\* than 50 distinct), text; an all-missing column gets object, and a column
\* of floats that are not all integers gets float.
C17_PrimerTipoQueAjusta ==
  DetectoTipos =>
    \A col \in DOMAIN tipos.res : tipos.res[col] = TipoEsperado(col)

\* only cargar_archivo has been called, on a stdout that can print, and some
\* call returned a table
SoloCargas ==
  /\ respuesta # <<>>
  /\ respuesta.previews = 0
  /\ respuesta.impresion_ok
  /\ respuesta.exitosa.hay

\* C18: after any sequence of loads obtener_metadatos() describes only the
\* most recent successful load: it holds what a loader that had loaded
\* nothing else would hold after that load, with nothing left over from
\* earlier loads.
C18_SoloUltimaCarga ==
  SoloCargas => obtener_metadatos(cargador) = respuesta.exitosa.metadatos

\* preview_archivo was called on a file of a supported format, on a stdout
\* that can print
VioPreview ==
  /\ respuesta # <<>>
  /\ respuesta.op = "preview_archivo"
  /\ respuesta.consola = "utf-8"
  /\ respuesta.archivo.existe
  /\ respuesta.archivo.sufijo \in FormatosSoportados

\* C19: preview_archivo(path, n) on a file of any supported format returns
\* at most n rows and leaves ultimo_archivo, ultimo_dataframe and metadatos
\* as they were before the call.
C19_PreviewNoCompromete ==
  VioPreview =>
     /\ Len(respuesta.res.preview.filas) <= respuesta.num_filas
     /\ cargador = respuesta.antes

\* a delimited text file was loaded at the first read with an explicit sep
\* or encoding, on a stdout that can print
CargoDelimitado ==
  /\ Cargo
  /\ respuesta.hay
  /\ Len(respuesta.intentos) = 1
  /\ respuesta.consola = "utf-8"
  /\ respuesta.archivo.sufijo \in {".csv", ".tsv", ".txt"}
  /\ Tiene(respuesta.kwargs, "sep") \/ Tiene(respuesta.kwargs, "encoding")

\* the encoding of the read that gave the table
EncodingUsado == respuesta.intentos[Len(respuesta.intentos)].encoding

\* C20: for .csv, .tsv and .txt an explicit sep given to cargar_archivo is
\* the delimiter the file is parsed with and the one the metadata records,
\* and an explicit encoding is the encoding the file is read with and the
\* one the metadata records.
C20_ExplicitoMandado ==
  CargoDelimitado =>
     /\ Tiene(respuesta.kwargs, "sep") =>
          /\ Get(cargador.metadatos, "separador_detectado", "") = respuesta.kwargs.sep
          /\ respuesta.df = read_csv(respuesta.archivo, EncodingUsado,
                                     respuesta.kwargs.sep, "UnicodeDecodeError").df
     /\ Tiene(respuesta.kwargs, "encoding") =>
          /\ Get(cargador.metadatos, "encoding_detectado", "") = respuesta.kwargs.encoding
          /\ EncodingUsado = respuesta.kwargs.encoding

\* the call just made took a strategy or method name it does not recognise
NombreDesconocido ==
  \/ /\ llamada.fn = "limpiar_valores_nulos"
     /\ llamada.estrategia \notin Estrategias
  \/ /\ llamada.fn = "tratar_outliers"
     /\ llamada.metodo \notin MetodosOutliers
  \/ /\ llamada.fn = "normalizar_datos"
     /\ llamada.metodo \notin MetodosNormalizar

\* C21: limpiar_valores_nulos, tratar_outliers and normalizar_datos called
\* with a name they do not recognise raise and return no table, and
\* detectar_outliers called with a method other than 'iqr' and 'zscore'
\* raises.
C21_NombreDesconocidoFalla ==
  /\ (corrida = 1 /\ NombreDesconocido) => (Falla(salida.exc) /\ ~salida.hay)
  /\ (deteccion # <<>> /\ deteccion.metodo \notin {"iqr", "zscore"}) =>
        Falla(deteccion.exc)

\* tratar_outliers was called once with the method on the numeric column a
Trato(metodo) ==
  /\ corrida = 1
  /\ llamada.fn = "tratar_outliers"
  /\ llamada.columnas = <<"a">>
  /\ llamada.metodo = metodo

\* the rows of the input whose value in column a is not flagged by the IQR
\* rule over the non-missing values of the column
NoFlagueadasIQR ==
  LET v == Serie(previo, "a")
      vals == SinNulos(previo, "a")
  IN  FilasDonde(previo, [i \in 1..Len(v) |->
         ~EsOutlierIQR(v[i], LimiteInferior(vals), LimiteSuperior(vals))])

\* C22: tratar_outliers with 'iqr_remove' returns the input without the rows
\* whose value lies outside [Q1 - 1.5*IQR, Q3 + 1.5*IQR]; every other row,
\* a row with a missing value in the column included, is kept unchanged and
\* in order.
C22_QuitaSoloFueraDeLimites ==
  Trato("iqr_remove") => (salida.hay /\ salida.tabla = NoFlagueadasIQR)

\* z^2 > 9 for the value x against the values vals
ZSobre3(vals, x) ==
  LET d == RSub(x, Media(vals))
  IN  RGt(RDiv(RMul(d, d), Varianza(vals)), R(9))

\* C23: tratar_outliers with 'zscore_remove' succeeds on every numeric
\* column, one with missing values included, and returns the input rows
\* except those whose own value has |z| > 3, z taken over the non-missing
\* values of the column.
C23_QuitaSoloZSobre3 ==
  Trato("zscore_remove") =>
     /\ ~Falla(salida.exc)
     /\ salida.hay
     /\ salida.tabla =
          FilasDonde(previo, [i \in 1..NFilas(previo) |->
             ~ZSobre3(SinNulos(previo, "a"), Serie(previo, "a")[i])])

\* C24: tratar_outliers applied to its own output with the same column and
\* the same method (iqr_cap, iqr_remove or zscore_remove) returns a table
\* identical to that output.
C24_TratarIdempotente ==
  (/\ corrida = 2
   /\ llamada.fn = "tratar_outliers"
   /\ llamada.columnas = <<"a">>
   /\ llamada.metodo \in MetodosOutliers) =>
      (salida.hay /\ salida.tabla = previo)

\* analisis_correlacion_completo returned a report without 'error'
AnalizoSinError == Analizo /\ "error" \notin analisis.res.claves

\* C25: no entry of correlaciones_significativas in the report has a
\* correlation of exactly 0, whatever the threshold (0 included): a value of
\* 0 is never handed to interpretar_correlacion and never gets a direction.
C25_CeroNoSeClasifica ==
  AnalizoSinError =>
     \A k \in 1..Len(analisis.res.correlaciones_significativas) :
        analisis.res.correlaciones_significativas[k].correlacion # R(0)

\* the correlations of the unique pairs of the matrix that are not NaN
ValoresDePares ==
  {matriz.corr[p[1]][p[2]] : p \in {q \in Pares(Len(matriz.columns)) :
                                      ~IsNaN(matriz.corr[q[1]][q[2]])}}

\* the report carries the recommendation of the kind
Recomienda(tipo) ==
  \E k \in 1..Len(analisis.res.recomendaciones) :
     analisis.res.recomendaciones[k].tipo = tipo

\* C26: whatever the threshold, the report flags multicollinearity iff some
\* pair has |correlation| >= 0.9, a strong inverse relation iff some pair
\* has correlation <= -0.7 and a strong direct relation iff some pair has
\* correlation >= 0.7, over all the non-NaN unique pairs of the matrix.
C26_BanderasSobreTodosLosPares ==
  AnalizoSinError =>
     /\ Recomienda("muy fuertes") <=>
          \E v \in ValoresDePares : 10 * Abs(v[1]) >= 9 * v[2]
     /\ Recomienda("negativas fuertes") <=>
          \E v \in ValoresDePares : 10 * v[1] <= -7 * v[2]
     /\ Recomienda("positivas fuertes") <=>
          \E v \in ValoresDePares : 10 * v[1] >= 7 * v[2]

\* optimizar_tipos_datos was called
Optimizo == tipos # <<>> /\ tipos.op = "optimizar_tipos_datos"

\* the cells of column k of the input that are present, and those of them
\* that are not numbers
PresentesEn(k) ==
  {j \in 1..Len(tipos.df.datos[k]) : tipos.df.datos[k][j].clase # "nulo"}

NoNumericasEn(k) ==
  {j \in PresentesEn(k) : tipos.df.datos[k][j].clase \notin {"entero", "decimal"}}

\* C27: optimizar_tipos_datos converts a text column with present values to
\* numeric iff at most 20% of its present values are not numbers, missing
\* cells not counted; a column it does not convert is returned unchanged;
\* column names, their order and the number of rows are preserved.
C27_ConvierteSiFallaPoco ==
  Optimizo =>
     /\ tipos.res.columnas = tipos.df.columnas
     /\ \A k \in 1..Len(tipos.df.columnas) :
           /\ Len(tipos.res.datos[k]) = Len(tipos.df.datos[k])
           /\ (tipos.df.dtypes[k] = "object" /\ PresentesEn(k) # {}) =>
                /\ tipos.res.dtypes[k] # "object" <=>
                     5 * Cardinality(NoNumericasEn(k)) <= Cardinality(PresentesEn(k))
                /\ tipos.res.dtypes[k] = "object" =>
                     tipos.res.datos[k] = tipos.df.datos[k]

\* eliminar_duplicados was called on all the columns of a table whose cells
\* can be compared
QuitoDuplicados(mantener) ==
  /\ corrida = 1
  /\ llamada.fn = "eliminar_duplicados"
  /\ llamada.columnas = Todas
  /\ llamada.mantener = mantener
  /\ ~TieneNoHashable(previo)

\* rows i and j of the input are equal
FilasIguales(i, j) == previo.data[i] = previo.data[j]

\* the input rows for which the test holds, in order
Retenidas(Test(_)) ==
  FilasDonde(previo, [i \in 1..NFilas(previo) |-> Test(i)])

EsPrimera(i) == \A j \in 1..NFilas(previo) : FilasIguales(i, j) => j >= i

EsUltima(i) == \A j \in 1..NFilas(previo) : FilasIguales(i, j) => j <= i

EsSola(i) == \A j \in 1..NFilas(previo) : FilasIguales(i, j) => j = i

\* the count the pipeline reports for its deduplication step is the number
\* of rows the step removed
CuentaDeDuplicados ==
  (EsPipeline /\ corrida >= 1 /\ salida.hay) =>
     \A k \in 1..Len(salida.pasos) :
        salida.pasos[k].paso = "duplicados" =>
           Acciones[k].n = salida.pasos[k].filas_antes - salida.pasos[k].filas_despues

\* C28: eliminar_duplicados returns, in their order, the earliest row of
\* each group of equal rows with 'first', the latest with 'last', and only
\* the rows without an equal with False; the result has no two equal rows;
\* and the count of duplicates in the pipeline's report is the number of
\* rows before its deduplication minus the number after.
C28_UnaFilaPorGrupo ==
  /\ QuitoDuplicados("first") => (salida.hay /\ salida.tabla = Retenidas(EsPrimera))
  /\ QuitoDuplicados("last") => (salida.hay /\ salida.tabla = Retenidas(EsUltima))
  /\ QuitoDuplicados(Falso) => (salida.hay /\ salida.tabla = Retenidas(EsSola))
  /\ (corrida = 1 /\ llamada.fn = "eliminar_duplicados" /\ salida.hay
        /\ llamada.columnas = Todas) =>
        \A i \in 1..NFilas(salida.tabla), j \in 1..NFilas(salida.tabla) :
           salida.tabla.data[i] = salida.tabla.data[j] => i = j
  /\ CuentaDeDuplicados

\* a .txt file, in either letter case, whose first line holds a delimiter
\* was loaded without overrides at the first read, on a stdout that can print
CargoTxt ==
  /\ Cargo
  /\ \E k \in 1..Len(SeparadoresComunes) :
        Contar(PrimeraLinea(respuesta.archivo), SeparadoresComunes[k]) > 0
  /\ respuesta.hay
  /\ respuesta.consola = "utf-8"
  /\ Extension(respuesta.archivo) = ".txt"
  /\ respuesta.kwargs = SinKwargs
  /\ Len(respuesta.intentos) = 1

\* what detectar_separador_csv returns for the file
SeparadorDetectado ==
  detectar_separador_csv(respuesta.archivo, detectar_encoding(respuesta.archivo))

\* C29: a .txt file loaded without overrides is parsed with the delimiter
\* detectar_separador_csv returns for its first line, and the metadata
\* records that delimiter; a comma-separated first line gives ','; the
\* letter case of the extension makes no difference.
C29_TxtConSeparadorDetectado ==
  CargoTxt =>
     /\ Get(cargador.metadatos, "separador_detectado", "") = SeparadorDetectado
     /\ respuesta.df = read_csv(respuesta.archivo, EncodingUsado, SeparadorDetectado,
                                "UnicodeDecodeError").df

(***************************************************************************)
(* Properties of ValidadorDatos.                                           *)
(***************************************************************************)
\* what a validator that has validated nothing returns for the arguments of
\* the k-th call
DeUnValidadorNuevo(k) ==
  Unico({Contenido(r.m, r.resultado) :
           r \in {validar_dataframe(MemoriaNueva, ValidadorNuevo, validaciones[k].df,
                                    validaciones[k].reglas)}})

\* what the result of the k-th call holds now
ContenidoAhora(k) == Contenido(memoria, validaciones[k].resultado)

\* C30: after any sequence of validar_dataframe calls on one instance, every
\* result that was returned is what a new validator returns for that call's
\* table and rules (nothing of an earlier call is in it), holds now what it
\* held when it was returned, and has 'valido' false exactly when its
\* 'errores' list is not empty
C30_ResultadosIndependientes ==
  \A k \in 1..Len(validaciones) :
    validaciones[k].hay =>
      /\ validaciones[k].visto = DeUnValidadorNuevo(k)
      /\ ContenidoAhora(k) = validaciones[k].visto
      /\ ContenidoAhora(k).valido = (ContenidoAhora(k).errores = <<>>)

\* two calls returned: the first found errors and warnings, the second only
\* warnings, and the first result still holds its errors
C30_Testigo ==
  /\ Len(validaciones) = 2
  /\ validaciones[1].hay /\ validaciones[2].hay
  /\ validaciones[1].visto.errores # <<>>
  /\ validaciones[1].visto.advertencias # <<>>
  /\ ~validaciones[1].visto.valido
  /\ validaciones[2].visto.errores = <<>>
  /\ validaciones[2].visto.advertencias # <<>>
  /\ validaciones[2].visto.valido
  /\ validaciones[2].visto.advertencias # validaciones[1].visto.advertencias
  /\ ContenidoAhora(1).errores = validaciones[1].visto.errores

====
